---- MODULE Spec2Model ----
(***************************************************************************)
(* A model of the GEXA indexing and retrieval pipeline:                    *)
(*   - CrawlerEngine.crawl_site, the bounded breadth-first site walk       *)
(*     (src/src/gexa/crawler/engine.py);                                   *)
(*   - VectorStore.search and VectorStore.find_similar_to_page             *)
(*     (src/src/gexa/search/vector_store.py);                              *)
(*   - SearchService.get_contents, find_similar, _save_page, _index_page   *)
(*     and the indexing loop of run_crawl_job                              *)
(*     (src/src/gexa/search/service.py, src/src/gexa/api/routes/crawl.py); *)
(*   - EmbeddingService.chunk_text (src/src/gexa/search/embeddings.py).    *)
(* Strings the code inspects character by character (URLs, page text) are  *)
(* sequences of one-character strings.                                     *)
(***************************************************************************)
EXTENDS Integers, Sequences, FiniteSets, TLC

\* ------------------------------------------------------------------------
\* Bounds of the model
\* ------------------------------------------------------------------------
MaxPages == 3        \* crawl_site: max_pages ranges over 1..MaxPages
MaxConcurrent == 2   \* crawl_site: max_concurrent ranges over 1..MaxConcurrent
MaxLinks == 2        \* links extracted from one fetched page
MaxRows == 3         \* rows of page_chunks in a stored corpus
MaxK == 2            \* search, find_similar_to_page: limit ranges over 1..MaxK

Min(a, b) == IF a <= b THEN a ELSE b

\* ------------------------------------------------------------------------
\* Strings and URLs
\* ------------------------------------------------------------------------
\* str.lower() on one character, for the letters the model's URLs use.
LowerChar(c) ==
    CASE c = "A" -> "a"
      [] c = "T" -> "t"
      [] c = "Y" -> "y"
      [] c = "Q" -> "q"
      [] OTHER -> c

Lower(s) == [i \in 1..Len(s) |-> LowerChar(s[i])]

RECURSIVE RStripSlash(_)
\* str.rstrip('/')
RStripSlash(s) ==
    IF s # <<>> /\ s[Len(s)] = "/" THEN RStripSlash(SubSeq(s, 1, Len(s) - 1)) ELSE s

\* str.endswith
EndsWith(s, suffix) ==
    /\ Len(suffix) <= Len(s)
    /\ SubSeq(s, Len(s) - Len(suffix) + 1, Len(s)) = suffix

\* A URL as urlparse splits it.
Url(scheme, netloc, path, query, fragment) ==
    [scheme |-> scheme, netloc |-> netloc, path |-> path,
     query |-> query, fragment |-> fragment]

HTTPS == <<"h", "t", "t", "p", "s">>
FTP == <<"f", "t", "p">>
NetA == <<"a", ".", "t">>
NetB == <<"b", ".", "t">>
NetSubA == <<"s", ".", "a", ".", "t">>

SeedA == Url(HTTPS, NetA, <<"/">>, <<>>, <<>>)
SeedSub == Url(HTTPS, NetSubA, <<"/", "z">>, <<>>, <<>>)
Seeds == {SeedA, SeedSub}

UrlAy == Url(HTTPS, NetA, <<"/", "y">>, <<>>, <<>>)
UrlAYslash == Url(HTTPS, NetA, <<"/", "Y", "/">>, <<>>, <<>>)
UrlBx == Url(HTTPS, NetB, <<"/", "x">>, <<>>, <<>>)
UrlFtp == Url(FTP, NetA, <<"/", "f">>, <<>>, <<>>)
RelYfrag == Url(<<>>, <<>>, <<"/", "y">>, <<>>, <<"f">>)

\* The hrefs a fetched page may contain (ExtractedContent.links, raw).
LinkUniverse == {SeedA, SeedSub, UrlAy, UrlAYslash, UrlBx, UrlFtp, RelYfrag}

\* urljoin(result.url, link): an absolute link is kept, a relative one (no scheme,
\* no netloc, absolute path) takes the scheme and netloc of the page.
Urljoin(base, link) ==
    IF link.scheme # <<>> THEN link
    ELSE Url(base.scheme, base.netloc, link.path, link.query, link.fragment)

\* CrawlerEngine._normalize_url
Normalize(url) ==
    LET normalized == url.scheme \o <<":", "/", "/">> \o url.netloc \o RStripSlash(url.path)
        withQuery == IF url.query # <<>> THEN normalized \o <<"?">> \o url.query
                     ELSE normalized
    IN Lower(withQuery)

\* Mutant of IsInScope: the subdomain test is applied whatever the flag says.
IsInScopeAlwaysSuffix(parsed_url, base_domain, incl_subdomains) ==
    /\ parsed_url.scheme \in {<<"h", "t", "t", "p">>, HTTPS}
    /\ EndsWith(parsed_url.netloc, base_domain)

\* Mutant of IsInScope: the flag is ignored and only the exact netloc passes.
IsInScopeNeverSuffix(parsed_url, base_domain, incl_subdomains) ==
    /\ parsed_url.scheme \in {<<"h", "t", "t", "p">>, HTTPS}
    /\ parsed_url.netloc = base_domain

\* CrawlerEngine._is_in_scope
IsInScope(parsed_url, base_domain, incl_subdomains) ==
    /\ parsed_url.scheme \in {<<"h", "t", "t", "p">>, HTTPS}
    /\ IF incl_subdomains THEN EndsWith(parsed_url.netloc, base_domain)
       ELSE parsed_url.netloc = base_domain

\* ------------------------------------------------------------------------
\* State
\* ------------------------------------------------------------------------
VARIABLES
    \* crawl_site: arguments
    seed_url, max_pages, max_concurrent, include_subdomains,
    \* crawl_site: locals
    visited, to_visit, results, batch, bi, nlinks, pc,
    \* history: every resolved link found on a successfully fetched page
    linked,
    \* the store: tables web_pages, page_chunks and search_queries
    web_pages, page_chunks, search_queries,
    \* the call on the store or the service being served, and what it returned
    op, ret,
    \* history: per page id, how the indexing of the page ended
    index_log,
    \* the database sessions running upsert_chunks: where each call stands, and
    \* what its open transaction holds
    tx,
    \* run_crawl_job: where the worker stands, its session and CrawlJob object,
    \* and the row of crawl_jobs as committed
    job,
    \* CrawlerEngine: the browser and the semaphore of the instance, the
    \* browsers launched and semaphores made so far, and where each crawl_url
    \* task stands
    engine

crawlVars == <<seed_url, max_pages, max_concurrent, include_subdomains,
               visited, to_visit, results, batch, bi, nlinks, pc, linked>>

storeVars == <<web_pages, page_chunks, search_queries>>

callVars == <<op, ret>>

histVars == <<index_log>>

txVars == <<tx>>

jobVars == <<job>>

engineVars == <<engine>>

vars == <<crawlVars, storeVars, callVars, histVars, txVars, jobVars,
         engineVars>>

\* What crawl_site leaves alone.
otherThanCrawl == <<storeVars, callVars, histVars, txVars, jobVars, engineVars>>

\* What the calls on the store and on the service leave alone.
otherThanService == <<crawlVars, txVars, jobVars, engineVars>>

\* ------------------------------------------------------------------------
\* crawl_site
\* ------------------------------------------------------------------------
\* Mutant of BatchSize: the batch is not capped by the pages still allowed.
BatchSizeUncapped(mc, mp, n) == mc

\* batch_size = min(self.max_concurrent, max_pages - len(results))
BatchSize(mc, mp, n) == Min(mc, mp - n)

\* Mutant of MarkVisited: the URL taken from the frontier is not recorded.
MarkVisitedDropped(vis, normalized) == vis

\* visited.add(normalized)
MarkVisited(vis, normalized) == vis \cup {normalized}

RECURSIVE PopLoop(_, _, _, _)
\* The inner while loop: pop from the frontier until the batch is full.
PopLoop(tv, vis, b, size) ==
    IF tv = <<>> \/ Len(b) >= size
    THEN [to_visit |-> tv, visited |-> vis, batch |-> b]
    ELSE LET url == Head(tv)
             normalized == Normalize(url)
         IN IF normalized \notin vis
            THEN PopLoop(Tail(tv), MarkVisited(vis, normalized), Append(b, url), size)
            ELSE PopLoop(Tail(tv), vis, b, size)

RECURSIVE EnqueueLinks(_, _, _, _, _, _)
\* The loop over result.content.links: resolve, scope test, visited test, append.
EnqueueLinks(tv, vis, page_url, links, base_domain, incl) ==
    IF links = <<>> THEN tv
    ELSE LET absolute_url == Urljoin(page_url, Head(links))
             keep == /\ IsInScope(absolute_url, base_domain, incl)
                     /\ Normalize(absolute_url) \notin vis
         IN EnqueueLinks(IF keep THEN Append(tv, absolute_url) ELSE tv,
                         vis, page_url, Tail(links), base_domain, incl)

\* crawl_site is entered; the store is not touched by the walk.
InitCrawl ==
    /\ seed_url \in Seeds
    /\ max_pages \in 1..MaxPages
    /\ max_concurrent \in 1..MaxConcurrent
    /\ include_subdomains \in BOOLEAN
    /\ visited = {}
    /\ to_visit = <<seed_url>>
    /\ results = <<>>
    /\ batch = <<>>
    /\ bi = 0
    /\ nlinks = 0
    /\ pc = "loop"
    /\ linked = {}
    /\ web_pages = <<>>
    /\ page_chunks = <<>>
    /\ op = [name |-> "idle"]
    /\ ret = <<>>
    /\ index_log = <<>>
    /\ tx = <<>>
    /\ search_queries = <<>>
    /\ engine = <<>>
    /\ job = [pc |-> "none"]

\* One pass of the outer loop up to the await: build the batch and hand it to
\* crawl_urls; an empty batch breaks out of the walk.
NextBatch ==
    /\ pc = "loop"
    /\ to_visit # <<>>
    /\ Len(results) < max_pages
    /\ LET r == PopLoop(to_visit, visited, <<>>,
                        BatchSize(max_concurrent, max_pages, Len(results)))
       IN /\ to_visit' = r.to_visit
          /\ visited' = r.visited
          /\ batch' = r.batch
          /\ bi' = 1
          /\ nlinks' = 0
          /\ pc' = IF r.batch = <<>> THEN "done" ELSE "process"
    /\ UNCHANGED <<seed_url, max_pages, max_concurrent, include_subdomains,
                   results, linked>>
    /\ UNCHANGED otherThanCrawl

\* The outer loop's condition is false: return results.
ReturnResults ==
    /\ pc = "loop"
    /\ ~(to_visit # <<>> /\ Len(results) < max_pages)
    /\ pc' = "done"
    /\ UNCHANGED <<seed_url, max_pages, max_concurrent, include_subdomains,
                   visited, to_visit, results, batch, bi, nlinks, linked>>
    /\ UNCHANGED otherThanCrawl

\* "for result in batch_results": the result of the fetch of batch[bi] is
\* appended.  crawl_urls returns the results in input order, and a fetch
\* outcome (crawl_url: an error, or content) depends on nothing the walk
\* changes, so it is drawn here.  A result with content goes on to its links.
AppendResult ==
    /\ pc = "process"
    /\ \E ok \in BOOLEAN :
          /\ results' = Append(results, [url |-> batch[bi], error |-> ~ok])
          /\ pc' = IF ok THEN "links"
                   ELSE IF bi = Len(batch) THEN "loop" ELSE "process"
          /\ bi' = IF ok THEN bi ELSE bi + 1
    /\ nlinks' = 0
    /\ UNCHANGED <<seed_url, max_pages, max_concurrent, include_subdomains,
                   visited, to_visit, batch, linked>>
    /\ UNCHANGED otherThanCrawl

\* One iteration of "for link in result.content.links".
EnqueueLink ==
    /\ pc = "links"
    /\ nlinks < MaxLinks
    /\ \E link \in LinkUniverse :
          /\ to_visit' = EnqueueLinks(to_visit, visited, batch[bi], <<link>>,
                                      seed_url.netloc, include_subdomains)
          /\ linked' = linked \cup {Urljoin(batch[bi], link)}
    /\ nlinks' = nlinks + 1
    /\ UNCHANGED <<seed_url, max_pages, max_concurrent, include_subdomains,
                   visited, results, batch, bi, pc>>
    /\ UNCHANGED otherThanCrawl

\* The links of the result are exhausted: on to the next result of the batch,
\* or back to the head of the outer loop.
EndLinks ==
    /\ pc = "links"
    /\ bi' = bi + 1
    /\ pc' = IF bi = Len(batch) THEN "loop" ELSE "process"
    /\ nlinks' = 0
    /\ UNCHANGED <<seed_url, max_pages, max_concurrent, include_subdomains,
                   visited, to_visit, results, batch, linked>>
    /\ UNCHANGED otherThanCrawl

NextCrawl == NextBatch \/ ReturnResults \/ AppendResult \/ EnqueueLink \/ EndLinks

SpecCrawl == InitCrawl /\ [][NextCrawl]_vars

\* ------------------------------------------------------------------------
\* Claims on crawl_site (checked under SpecCrawl)
\* ------------------------------------------------------------------------
ResultUrls == {results[i].url : i \in 1..Len(results)}

\* The URLs handed to crawl_url so far: the results, and the rest of the
\* batch in flight.
FetchedSeq ==
    [i \in 1..Len(results) |-> results[i].url]
        \o (IF pc \in {"process", "links"}
            THEN SubSeq(batch, IF pc = "links" THEN bi + 1 ELSE bi, Len(batch))
            ELSE <<>>)

\* C1: crawl_site never holds more than max_pages results, after every batch
\* of the walk and at return, whatever the links and the fetch outcomes.
C1_ResultsBounded == Len(results) <= max_pages

\* C1 witness: the walk returned with max_pages >= 2 results while the
\* frontier still held URLs, and one of the fetches had failed.
C1_Witness ==
    /\ pc = "done"
    /\ max_pages >= 2
    /\ Len(results) = max_pages
    /\ to_visit # <<>>
    /\ \E i \in 1..Len(results) : results[i].error

\* C2: with include_subdomains = false every result URL has the seed's netloc.
C2_SameNetloc ==
    ~include_subdomains =>
        \A i \in 1..Len(results) : results[i].url.netloc = seed_url.netloc

\* C2 witness: a walk without subdomains returned two or more results after
\* a fetched page linked to a subdomain of the seed and to another domain.
C2_Witness ==
    /\ pc = "done"
    /\ ~include_subdomains
    /\ Len(results) >= 2
    /\ \E u \in linked : u.netloc # seed_url.netloc /\ EndsWith(u.netloc, seed_url.netloc)
    /\ \E u \in linked : ~EndsWith(u.netloc, seed_url.netloc)

\* Scope as the walk's contract states it: http(s), and the seed's netloc
\* (or, with subdomains included, a netloc ending with it).
InScopeOfWalk(u) ==
    /\ u.scheme \in {<<"h", "t", "t", "p">>, HTTPS}
    /\ \/ u.netloc = seed_url.netloc
       \/ include_subdomains /\ EndsWith(u.netloc, seed_url.netloc)

\* C3: a walk that returns fewer than max_pages results has fetched every
\* in-scope URL reachable from the seed through links of successfully fetched
\* pages (up to normalization), and no out-of-scope URL.
C3_CompleteWithinBound ==
    (pc = "done" /\ Len(results) < max_pages) =>
        /\ \A u \in {seed_url} \cup linked :
              InScopeOfWalk(u) =>
                  \E r \in ResultUrls : Normalize(r) = Normalize(u)
        /\ \A r \in ResultUrls : InScopeOfWalk(r)

\* C3 witness: the seed on a.t linked to b.t/x and a.t/y, subdomains
\* excluded; the walk returned below its bound with exactly the seed and a.t/y.
C3_Witness ==
    /\ pc = "done"
    /\ seed_url = SeedA
    /\ ~include_subdomains
    /\ Len(results) < max_pages
    /\ {UrlBx, UrlAy} \subseteq linked
    /\ ResultUrls = {SeedA, UrlAy}

\* C4: no two fetched URLs of one walk have the same normalized form.
C4_NoRefetch ==
    \A i, j \in 1..Len(FetchedSeq) :
        i # j => Normalize(FetchedSeq[i]) # Normalize(FetchedSeq[j])

\* C4 witness: a fetch has failed, and the frontier holds the same normalized
\* URL twice (several links enqueued it before it was visited).
C4_Witness ==
    /\ \E i \in 1..Len(results) : results[i].error
    /\ \E i, j \in 1..Len(to_visit) :
          i # j /\ Normalize(to_visit[i]) = Normalize(to_visit[j])

\* The key the walk's contract gives a URL: the netloc lowered, the path
\* without its trailing slash and the query as they are written.
KeepsCase(u) == <<u.scheme, Lower(u.netloc), RStripSlash(u.path), u.query>>

\* C28: normalization keeps the case of path and query, so URLs that differ
\* there, even only in letter case, are distinct to the walk: a walk that
\* returns below its bound has fetched, for every in-scope URL it found, a URL
\* with the same scheme, lowered netloc, path and query.
C28_CaseKeptInPath ==
    (pc = "done" /\ Len(results) < max_pages) =>
        \A u \in {seed_url} \cup linked :
            InScopeOfWalk(u) =>
                \E r \in ResultUrls : KeepsCase(r) = KeepsCase(u)

\* ------------------------------------------------------------------------
\* The store: web_pages and page_chunks
\* ------------------------------------------------------------------------
\* An optional value (a nullable column, an Optional argument) is the empty
\* set for SQL NULL and Python None, and {x} for the value x.
NULL == {}
None == {}
Some(x) == {x}
Val(v) == CHOOSE x \in v : TRUE

PageIds == {1, 2, 3}

\* The URL stored with each page id; domain is its netloc (_save_page).
PageUrl(id) == CASE id = 1 -> SeedA [] id = 2 -> UrlAy [] OTHER -> UrlBx

\* A row of web_pages (the columns the model reads).
PageRow(url, content, published_date, language) ==
    [url |-> url, domain |-> url.netloc, content |-> content,
     published_date |-> published_date, language |-> language]

\* A row of page_chunks.
ChunkRow(page_id, chunk_index, content, embedding) ==
    [page_id |-> page_id, chunk_index |-> chunk_index,
     content |-> content, embedding |-> embedding]

\* Embedding vectors (two dimensions stand for the 768 of the model).
Emb == {<<1, 0>>, <<1, 1>>}

Dot(a, b) == a[1] * b[1] + a[2] * b[2]

\* score = 1 - (pc.embedding <=> :query_embedding), the cosine similarity.  The
\* model keeps 2 * cos^2, an integer that orders the non-negative vectors of
\* Emb as the cosine does.
Score(query_embedding, embedding) ==
    (2 * Dot(query_embedding, embedding) * Dot(query_embedding, embedding))
        \div (Dot(query_embedding, query_embedding) * Dot(embedding, embedding))

\* Python truthiness of an optional list or string argument ...
Truthy(v) == v # None /\ Val(v) # <<>>

\* ... and of an optional datetime, which is true whenever it is given.
TruthyDate(v) == v # None

InList(x, list) == \E i \in 1..Len(list) : list[i] = x

\* Mutant of PassFilters: the exclude_domains clause is not added.
PassFiltersNoExclude(page, filters) ==
    /\ Truthy(filters.domains) => InList(page.domain, Val(filters.domains))
    /\ TruthyDate(filters.start_date) =>
          page.published_date # NULL /\ Val(page.published_date) >= Val(filters.start_date)
    /\ TruthyDate(filters.end_date) =>
          page.published_date # NULL /\ Val(page.published_date) <= Val(filters.end_date)
    /\ Truthy(filters.language) =>
          page.language # NULL /\ Val(page.language) = Val(filters.language)

\* The WHERE clauses VectorStore.search adds for the filters that are truthy.
\* A comparison with a NULL column is not true, so the row is dropped.
PassFilters(page, filters) ==
    /\ Truthy(filters.domains) => InList(page.domain, Val(filters.domains))
    /\ Truthy(filters.exclude_domains) => ~InList(page.domain, Val(filters.exclude_domains))
    /\ TruthyDate(filters.start_date) =>
          page.published_date # NULL /\ Val(page.published_date) >= Val(filters.start_date)
    /\ TruthyDate(filters.end_date) =>
          page.published_date # NULL /\ Val(page.published_date) <= Val(filters.end_date)
    /\ Truthy(filters.language) =>
          page.language # NULL /\ Val(page.language) = Val(filters.language)

\* FROM page_chunks pc JOIN web_pages wp ... WHERE pc.embedding IS NOT NULL
\* AND <filters>: the indices of the rows of page_chunks that qualify.
SearchCandidates(filters) ==
    {i \in 1..Len(page_chunks) :
        /\ page_chunks[i].page_id \in DOMAIN web_pages
        /\ page_chunks[i].embedding # NULL
        /\ PassFilters(web_pages[page_chunks[i].page_id], filters)}

RowScore(i, query_embedding) == Score(query_embedding, Val(page_chunks[i].embedding))

RECURSIVE OrderByScoreLimit(_, _, _)
\* ORDER BY score DESC LIMIT :limit.  SQL leaves the order of rows with equal
\* scores open: the set of row sequences the query may return.
OrderByScoreLimit(S, query_embedding, limit) ==
    IF limit = 0 \/ S = {} THEN {<<>>}
    ELSE LET best == {i \in S : \A j \in S :
                         RowScore(j, query_embedding) <= RowScore(i, query_embedding)}
         IN UNION {{<<i>> \o t : t \in OrderByScoreLimit(S \ {i}, query_embedding, limit - 1)}
                   : i \in best}

\* The dict built from one fetched row.
ResultOf(i, query_embedding) ==
    LET c == page_chunks[i]
        wp == web_pages[c.page_id]
    IN [page_id |-> c.page_id, chunk_index |-> c.chunk_index, url |-> wp.url,
        domain |-> wp.domain, published_date |-> wp.published_date,
        language |-> wp.language, score |-> RowScore(i, query_embedding)]

RECURSIVE DedupLoop(_, _, _, _, _)
\* for row in rows: skip a page already seen; stop at max_results (the break
\* of find_similar_to_page; search has no break and passes Len(rows)).
DedupLoop(rows, query_embedding, seen_pages, out, max_results) ==
    IF rows = <<>> \/ Len(out) >= max_results THEN out
    ELSE LET pid == page_chunks[Head(rows)].page_id
         IN IF pid \in seen_pages
            THEN DedupLoop(Tail(rows), query_embedding, seen_pages, out, max_results)
            ELSE DedupLoop(Tail(rows), query_embedding, seen_pages \cup {pid},
                           Append(out, ResultOf(Head(rows), query_embedding)), max_results)

RECURSIVE DedupKeepLastLoop(_, _, _)
DedupKeepLastLoop(rows, query_embedding, out) ==
    IF rows = <<>> THEN out
    ELSE LET pid == page_chunks[Head(rows)].page_id
             later == \E i \in 2..Len(rows) : page_chunks[rows[i]].page_id = pid
         IN DedupKeepLastLoop(Tail(rows), query_embedding,
                              IF later THEN out
                              ELSE Append(out, ResultOf(Head(rows), query_embedding)))

\* Mutant of DedupByPage: the last row of a page is kept instead of the first.
DedupKeepLast(rows, query_embedding) == DedupKeepLastLoop(rows, query_embedding, <<>>)

\* VectorStore.search, the deduplication loop.
DedupByPage(rows, query_embedding) ==
    DedupLoop(rows, query_embedding, {}, <<>>, Len(rows))

\* Mutant of SimilarCandidate: the source page is not excluded.
SimilarCandidateWithSource(row, source_page_id, source_domain, exclude_source_domain) ==
    /\ row.page_id \in DOMAIN web_pages
    /\ row.embedding # NULL
    /\ exclude_source_domain => web_pages[row.page_id].domain # source_domain

\* find_similar_to_page, the WHERE clause of the candidate query.
SimilarCandidate(row, source_page_id, source_domain, exclude_source_domain) ==
    /\ row.page_id \in DOMAIN web_pages
    /\ row.embedding # NULL
    /\ row.page_id # source_page_id
    /\ exclude_source_domain => web_pages[row.page_id].domain # source_domain

\* select(PageChunk, WebPage).join(WebPage).where(page_id == :id)
\* .order_by(chunk_index).limit(1): the indices of the first chunk of the page.
FirstChunk(page_id) ==
    {i \in 1..Len(page_chunks) :
        /\ page_chunks[i].page_id = page_id
        /\ page_id \in DOMAIN web_pages
        /\ \A j \in 1..Len(page_chunks) :
              page_chunks[j].page_id = page_id =>
                  page_chunks[i].chunk_index <= page_chunks[j].chunk_index}

\* ------------------------------------------------------------------------
\* Stored corpora for the retrieval calls
\* ------------------------------------------------------------------------
OptionOf(S) == {NULL} \cup {Some(x) : x \in S}

Dates == {1, 2, 3}
Languages == {<<"e", "n">>}
TextX == <<"x">>

RECURSIVE SeqsUpTo(_, _)
SeqsUpTo(S, n) ==
    IF n = 0 THEN {<<>>}
    ELSE LET shorter == SeqsUpTo(S, n - 1)
         IN shorter \cup {Append(s, x) : s \in shorter, x \in S}

\* chunk_index of the n-th inserted row: the rows of its page inserted before.
IndexRows(rows) ==
    [n \in 1..Len(rows) |->
        ChunkRow(rows[n][1],
                 Cardinality({m \in 1..(n - 1) : rows[m][1] = rows[n][1]}),
                 TextX, Some(rows[n][2]))]

\* Corpora that vary what the filters read: up to two of the pages, any
\* published_date and language, one embedded chunk per page.
FilterCorpora ==
    UNION {{[pages |-> [id \in S |-> PageRow(PageUrl(id), TextX, a[id][1], a[id][2])],
             chunks |-> IndexRows([n \in 1..Cardinality(S) |->
                           <<CHOOSE id \in S : Cardinality({x \in S : x < id}) = n - 1,
                             <<1, 0>>>>])]
            : a \in [S -> OptionOf(Dates) \X OptionOf(Languages)]}
           : S \in {T \in SUBSET PageIds : Cardinality(T) <= 2}}

\* Corpora that vary the chunks: all pages stored, up to MaxRows chunk rows
\* with any embeddings, in any insertion order.
RankCorpora ==
    {[pages |-> [id \in PageIds |-> PageRow(PageUrl(id), TextX, NULL, NULL)],
      chunks |-> IndexRows(rows)]
     : rows \in SeqsUpTo(PageIds \X Emb, MaxRows)}

\* The filters of a search request (SearchFilters), None for a field not given.
FilterSpace ==
    [domains : {None, Some(<<>>), Some(<<NetA>>)},
     exclude_domains : {None, Some(<<NetA>>)},
     start_date : {None, Some(2)},
     end_date : {None, Some(2)},
     language : {None, Some(<<>>), Some(<<"e", "n">>)}]

\* ------------------------------------------------------------------------
\* VectorStore.search and VectorStore.find_similar_to_page
\* ------------------------------------------------------------------------
InitSearch ==
    /\ \E corpus \in FilterCorpora \cup RankCorpora :
          /\ web_pages = corpus.pages
          /\ page_chunks = corpus.chunks
    /\ op = [name |-> "idle"]
    /\ ret = <<>>
    /\ seed_url = SeedA
    /\ max_pages = 1
    /\ max_concurrent = 1
    /\ include_subdomains = FALSE
    /\ visited = {}
    /\ to_visit = <<>>
    /\ results = <<>>
    /\ batch = <<>>
    /\ bi = 0
    /\ nlinks = 0
    /\ pc = "idle"
    /\ linked = {}
    /\ index_log = <<>>
    /\ tx = <<>>
    /\ search_queries = <<>>
    /\ engine = <<>>
    /\ job = [pc |-> "none"]

\* VectorStore.search(query_embedding, limit, filters)
Search ==
    /\ op.name = "idle"
    /\ \E query_embedding \in Emb, limit \in 1..MaxK, filters \in FilterSpace :
          /\ op' = [name |-> "search", query_embedding |-> query_embedding,
                    limit |-> limit, filters |-> filters]
          /\ \E rows \in OrderByScoreLimit(SearchCandidates(filters), query_embedding, limit) :
                ret' = DedupByPage(rows, query_embedding)
    /\ UNCHANGED <<storeVars, otherThanService, histVars>>

\* VectorStore.find_similar_to_page(page_id, limit, exclude_source_domain): the
\* lists it may return (one for each order SQL may give to equal scores).
SimilarToPage(page_id, limit, exclude_source_domain) ==
    IF FirstChunk(page_id) = {} THEN {<<>>}
    ELSE LET chunk == page_chunks[CHOOSE i \in FirstChunk(page_id) : TRUE]
             page == web_pages[page_id]
             cand == {i \in 1..Len(page_chunks) :
                         SimilarCandidate(page_chunks[i], page_id, page.domain,
                                          exclude_source_domain)}
         IN {DedupLoop(rows, Val(chunk.embedding), {}, <<>>, limit) :
                rows \in OrderByScoreLimit(cand, Val(chunk.embedding), limit * 3)}

\* A call of find_similar_to_page on a stored corpus.
FindSimilarToPage ==
    /\ op.name = "idle"
    /\ \E page_id \in PageIds, limit \in 1..MaxK, exclude_source_domain \in BOOLEAN :
          /\ op' = [name |-> "find_similar_to_page", page_id |-> page_id,
                    limit |-> limit, exclude_source_domain |-> exclude_source_domain]
          /\ ret' \in SimilarToPage(page_id, limit, exclude_source_domain)
    /\ UNCHANGED <<storeVars, otherThanService, histVars>>

NextSearch == Search \/ FindSimilarToPage

SpecSearch == InitSearch /\ [][NextSearch]_vars

\* ------------------------------------------------------------------------
\* Claims on search and find_similar_to_page (checked under SpecSearch)
\* ------------------------------------------------------------------------
\* The embedded chunks of a page that pass the filters of the search served.
MatchingChunksOf(page_id) ==
    {i \in SearchCandidates(op.filters) : page_chunks[i].page_id = page_id}

MatchingPages == {page_chunks[i].page_id : i \in SearchCandidates(op.filters)}

\* C5: search returns each page at most once, the row of a page carries the
\* highest score among the page's embedded chunks that pass the filters, and
\* the rows are ordered by score, descending.
C5_DedupKeepsBest ==
    op.name = "search" =>
        /\ \A i, j \in 1..Len(ret) : i # j => ret[i].page_id # ret[j].page_id
        /\ \A i \in 1..Len(ret) :
              \A c \in MatchingChunksOf(ret[i].page_id) :
                  RowScore(c, op.query_embedding) <= ret[i].score
        /\ \A i \in 1..Len(ret) :
              \E c \in MatchingChunksOf(ret[i].page_id) :
                  RowScore(c, op.query_embedding) = ret[i].score
        /\ \A i, j \in 1..Len(ret) : i < j => ret[i].score >= ret[j].score

\* C5 witness: a search with limit 2 over two matching pages returned one
\* row, so both rows fetched were chunks of that page, with different scores.
C5_Witness ==
    /\ op.name = "search"
    /\ op.limit = 2
    /\ Len(ret) = 1
    /\ Cardinality(MatchingPages) >= 2
    /\ \E c, d \in MatchingChunksOf(ret[1].page_id) :
          RowScore(c, op.query_embedding) < RowScore(d, op.query_embedding)

\* C6: search returns the top k pages: exactly k rows whenever k or more
\* distinct pages have an embedded chunk passing the filters, else one row
\* per such page.
C6_TopKPages ==
    op.name = "search" => Len(ret) = Min(op.limit, Cardinality(MatchingPages))

\* C7 as stated: every returned row satisfies every filter that was given.
C7_EveryGivenFilter ==
    op.name = "search" =>
        \A i \in 1..Len(ret) :
            /\ op.filters.domains # None =>
                  InList(ret[i].domain, Val(op.filters.domains))
            /\ op.filters.exclude_domains # None =>
                  ~InList(ret[i].domain, Val(op.filters.exclude_domains))
            /\ op.filters.start_date # None =>
                  /\ ret[i].published_date # NULL
                  /\ Val(ret[i].published_date) >= Val(op.filters.start_date)
            /\ op.filters.end_date # None =>
                  /\ ret[i].published_date # NULL
                  /\ Val(ret[i].published_date) <= Val(op.filters.end_date)
            /\ op.filters.language # None =>
                  /\ ret[i].language # NULL
                  /\ Val(ret[i].language) = Val(op.filters.language)

NonEmpty(v) == v # None /\ Val(v) # <<>>

\* C7 (amended): every returned row satisfies every filter given with a
\* non-empty value: a non-empty domains list, a non-empty exclude_domains
\* list, a start_date, an end_date (both inclusive), a non-empty language.
C7_EveryNonEmptyFilter ==
    op.name = "search" =>
        \A i \in 1..Len(ret) :
            /\ NonEmpty(op.filters.domains) =>
                  InList(ret[i].domain, Val(op.filters.domains))
            /\ NonEmpty(op.filters.exclude_domains) =>
                  ~InList(ret[i].domain, Val(op.filters.exclude_domains))
            /\ op.filters.start_date # None =>
                  /\ ret[i].published_date # NULL
                  /\ Val(ret[i].published_date) >= Val(op.filters.start_date)
            /\ op.filters.end_date # None =>
                  /\ ret[i].published_date # NULL
                  /\ Val(ret[i].published_date) <= Val(op.filters.end_date)
            /\ NonEmpty(op.filters.language) =>
                  /\ ret[i].language # NULL
                  /\ Val(ret[i].language) = Val(op.filters.language)

\* C7 witness: a search with exclude_domains, both dates and a language given
\* returned a row, while a page of the excluded domain is stored with a chunk.
C7_Witness ==
    /\ op.name = "search"
    /\ NonEmpty(op.filters.exclude_domains)
    /\ op.filters.start_date # None
    /\ op.filters.end_date # None
    /\ NonEmpty(op.filters.language)
    /\ Len(ret) >= 1
    /\ \E i \in 1..Len(page_chunks) :
          InList(web_pages[page_chunks[i].page_id].domain, Val(op.filters.exclude_domains))

\* C8: find_similar_to_page never returns the source page, returns at most
\* limit rows, each page at most once, and with exclude_source_domain no page
\* of the source page's domain.
C8_SimilarExcludesSource ==
    op.name = "find_similar_to_page" =>
        /\ \A i \in 1..Len(ret) : ret[i].page_id # op.page_id
        /\ Len(ret) <= op.limit
        /\ \A i, j \in 1..Len(ret) : i # j => ret[i].page_id # ret[j].page_id
        /\ op.exclude_source_domain =>
              \A i \in 1..Len(ret) : ret[i].domain # web_pages[op.page_id].domain

\* C8 witness: with exclude_source_domain, a row was returned while another
\* page of the source's domain holds an embedded chunk.
C8_Witness ==
    /\ op.name = "find_similar_to_page"
    /\ op.exclude_source_domain
    /\ Len(ret) >= 1
    /\ \E i \in 1..Len(page_chunks) :
          /\ page_chunks[i].page_id # op.page_id
          /\ web_pages[page_chunks[i].page_id].domain = web_pages[op.page_id].domain

\* ------------------------------------------------------------------------
\* EmbeddingService.chunk_text
\* ------------------------------------------------------------------------
\* settings.chunk_size and settings.chunk_overlap (1000 and 200 by default),
\* scaled down with the page texts.
ChunkSize == 12
ChunkOverlap == 2

Whitespace == {" ", "\n"}

\* A slice bound as Python reads it: a negative one counts from the end, and
\* both are clamped to 0..len.
SliceBound(n, len) ==
    IF n < 0 THEN (IF n + len < 0 THEN 0 ELSE n + len) ELSE Min(n, len)

\* text[a:b]
Slice(text, a, b) ==
    SubSeq(text, SliceBound(a, Len(text)) + 1, SliceBound(b, Len(text)))

RECURSIVE LStrip(_)
LStrip(s) == IF s # <<>> /\ Head(s) \in Whitespace THEN LStrip(Tail(s)) ELSE s

RECURSIVE RStrip(_)
RStrip(s) ==
    IF s # <<>> /\ s[Len(s)] \in Whitespace THEN RStrip(SubSeq(s, 1, Len(s) - 1)) ELSE s

\* str.strip()
Strip(s) == LStrip(RStrip(s))

\* str.rfind(sep): the highest index where sep occurs, or -1.
RFind(s, sep) ==
    LET at == {q \in 0..(Len(s) - Len(sep)) : SubSeq(s, q + 1, q + Len(sep)) = sep}
    IN IF at = {} THEN -1 ELSE CHOOSE q \in at : \A r \in at : r <= q

Separators == << <<".", " ">>, <<".", "\n">>, <<"!", " ">>, <<"!", "\n">>,
                 <<"?", " ">>, <<"?", "\n">> >>

\* "for sep in [...]: ... break": the end of the chunk after the first
\* separator of the list that occurs in the last fifth of the window, or the
\* window's end when none occurs.
BreakAt(text, start, chunk_size, end) ==
    LET search_start == start + ((chunk_size * 8) \div 10)
        search_text == Slice(text, search_start, end)
        found == {k \in 1..Len(Separators) : RFind(search_text, Separators[k]) # -1}
    IN IF found = {} THEN end
       ELSE LET k == CHOOSE x \in found : \A y \in found : x <= y
            IN search_start + RFind(search_text, Separators[k]) + Len(Separators[k])

\* Mutant of NextStart: the step back by the overlap is always taken.
NextStartUnchecked(end, chunk_overlap, no_progress) == end - chunk_overlap

\* start = end - chunk_overlap; if <no progress>: start = end
NextStart(end, chunk_overlap, no_progress) ==
    IF no_progress THEN end ELSE end - chunk_overlap

\* One iteration of the while loop: the chunks and the start after it.
\* "start <= chunks[-1]["start_char"] if chunks else 0" is the conditional
\* expression (start <= ...) if chunks else 0, false while chunks is empty.
ChunkStep(text, chunk_size, chunk_overlap, start, chunks) ==
    LET end == IF start + chunk_size < Len(text)
               THEN BreakAt(text, start, chunk_size, start + chunk_size)
               ELSE Len(text)
        chunk_text == Strip(Slice(text, start, end))
        chunks2 == IF chunk_text # <<>>
                   THEN Append(chunks, [content |-> chunk_text,
                                        start_char |-> start, end_char |-> end])
                   ELSE chunks
        no_progress == IF chunks2 # <<>>
                       THEN end - chunk_overlap <= chunks2[Len(chunks2)].start_char
                       ELSE FALSE
    IN [start |-> NextStart(end, chunk_overlap, no_progress),
        chunks |-> chunks2]

RECURSIVE ChunkLoop(_, _, _, _, _)
\* The while loop.  An iteration that changes neither start nor chunks
\* repeats forever: returns is FALSE.  (next ranges over the one outcome of
\* the iteration.)
ChunkLoop(text, chunk_size, chunk_overlap, start, chunks) ==
    IF ~(start < Len(text)) THEN [chunks |-> chunks, returns |-> TRUE]
    ELSE Val({IF next.start = start /\ next.chunks = chunks
              THEN [chunks |-> chunks, returns |-> FALSE]
              ELSE ChunkLoop(text, chunk_size, chunk_overlap, next.start, next.chunks) :
              next \in {ChunkStep(text, chunk_size, chunk_overlap, start, chunks)}})

\* The whole text as one chunk (the early return).
WholeText(text) == <<[content |-> text, start_char |-> 0, end_char |-> Len(text)]>>

ChunkText(text, chunk_size, chunk_overlap) ==
    IF text = <<>> \/ Len(text) <= chunk_size
    THEN [chunks |-> WholeText(text), returns |-> TRUE]
    ELSE ChunkLoop(text, chunk_size, chunk_overlap, 0, <<>>)

\* ------------------------------------------------------------------------
\* SearchService: _save_page, _index_page, get_contents, find_similar, and
\* the indexing loop of run_crawl_job
\* ------------------------------------------------------------------------
MaxUrls == 2           \* get_contents: urls holds 1..MaxUrls URLs

SvcUrls == {SeedA, UrlBx}

TextLong == <<"x", "x", "x", "x", "x", "x", "x", "x", "x", ".", " ", "x", "x", "x">>

\* Eleven characters and a tail of whitespace.
TextTail == <<"x", "x", "x", "x", "x", "x", "x", "x", "x", "x", "x", " ", " ", " ">>

\* Main texts as the extractor returns them.
Texts == {<<>>, TextX, TextLong}

\* ExtractedContent: the fields _save_page copies; content is None when the
\* extractor found no main text.
CrawlContents ==
    {[content |-> t, published_date |-> NULL, language |-> NULL] : t \in OptionOf(Texts)}

\* The contents the pages of a crawled site may have: those above, and a text
\* on which chunk_text does not return.
JobContents ==
    CrawlContents
    \cup {[content |-> Some(TextTail), published_date |-> NULL, language |-> NULL]}

\* What crawl_url returns: an error, or the extracted content.
CrawlResults ==
    {[error |-> TRUE, content |-> [content |-> None, published_date |-> NULL,
                                   language |-> NULL]]}
    \cup {[error |-> FALSE, content |-> c] : c \in CrawlContents}

\* VectorStore.get_page_by_url: the ids of the rows with this URL.
GetPageByUrl(pages, url) == {id \in DOMAIN pages : pages[id].url = url}

\* _save_page: always an INSERT of a new row.  web_pages.url is unique, so the
\* commit raises IntegrityError when a row with the URL exists, and the table
\* is left as it was.
SavePage(pages, url, content) ==
    IF GetPageByUrl(pages, url) # {}
    THEN [raised |-> TRUE, web_pages |-> pages, id |-> 0]
    ELSE [raised |-> FALSE,
          web_pages |-> Append(pages, PageRow(url, content.content,
                                              content.published_date, content.language)),
          id |-> Len(pages) + 1]

\* Mutant of UpsertChunks: chunk_index counts from 1.
UpsertChunksFromOne(chunks_tbl, page_id, chunks, embeddings) ==
    SelectSeq(chunks_tbl, LAMBDA r : r.page_id # page_id)
    \o [i \in 1..Min(Len(chunks), Len(embeddings)) |->
           ChunkRow(page_id, i, chunks[i].content, Some(embeddings[i]))]

\* Mutant of UpsertChunks: the page's old rows are not deleted.
UpsertChunksKeepsOld(chunks_tbl, page_id, chunks, embeddings) ==
    chunks_tbl
    \o [i \in 1..Min(Len(chunks), Len(embeddings)) |->
           ChunkRow(page_id, i - 1, chunks[i].content, Some(embeddings[i]))]

\* upsert_chunks: DELETE the page's rows, add a row for each pair of
\* zip(chunks, embeddings) with chunk_index = i from enumerate, commit.
UpsertChunks(chunks_tbl, page_id, chunks, embeddings) ==
    SelectSeq(chunks_tbl, LAMBDA r : r.page_id # page_id)
    \o [i \in 1..Min(Len(chunks), Len(embeddings)) |->
           ChunkRow(page_id, i - 1, chunks[i].content, Some(embeddings[i]))]

\* The chunks _index_page would hand to embed_texts.
ChunksOf(content) ==
    IF content = NULL \/ Val(content) = <<>> THEN <<>>
    ELSE ChunkText(Val(content), ChunkSize, ChunkOverlap).chunks

\* What embed_texts may do with them: raise (None) once the retries of one
\* embed_text are used up, or return one vector per text.  The chunks of one
\* page, windows of one text, get the same vector.
EmbedOutcomes(content) ==
    {None} \cup {Some([i \in 1..Len(ChunksOf(content)) |-> e]) : e \in Emb}

\* Mutant of IndexPage: the page's old rows are deleted before the chunks are
\* embedded.
IndexPageDeletesFirst(chunks_tbl, page_id, content, embeddings) ==
    IF content = NULL \/ Val(content) = <<>>
    THEN [outcome |-> "no_content", page_chunks |-> chunks_tbl]
    ELSE LET c == ChunkText(Val(content), ChunkSize, ChunkOverlap)
         IN IF ~c.returns THEN [outcome |-> "no_return", page_chunks |-> chunks_tbl]
            ELSE IF c.chunks = <<>>
                 THEN [outcome |-> "no_chunks", page_chunks |-> chunks_tbl]
            ELSE IF embeddings = None
                 THEN [outcome |-> "raised",
                       page_chunks |-> SelectSeq(chunks_tbl,
                                                 LAMBDA r : r.page_id # page_id)]
            ELSE [outcome |-> "indexed",
                  page_chunks |-> UpsertChunks(chunks_tbl, page_id, c.chunks,
                                               Val(embeddings))]

\* _index_page(page): how it ended, and page_chunks afterwards.
IndexPage(chunks_tbl, page_id, content, embeddings) ==
    IF content = NULL \/ Val(content) = <<>>
    THEN [outcome |-> "no_content", page_chunks |-> chunks_tbl]
    ELSE LET c == ChunkText(Val(content), ChunkSize, ChunkOverlap)
         IN IF ~c.returns THEN [outcome |-> "no_return", page_chunks |-> chunks_tbl]
            ELSE IF c.chunks = <<>>
                 THEN [outcome |-> "no_chunks", page_chunks |-> chunks_tbl]
            ELSE IF embeddings = None
                 THEN [outcome |-> "raised", page_chunks |-> chunks_tbl]
            ELSE [outcome |-> "indexed",
                  page_chunks |-> UpsertChunks(chunks_tbl, page_id, c.chunks,
                                               Val(embeddings))]

\* No call of the service is between two of its steps.
Quiet == op.stage \notin {"loop", "delegate"}

InitService ==
    /\ web_pages = <<>>
    /\ page_chunks = <<>>
    /\ op = [name |-> "idle", stage |-> "returned"]
    /\ ret = <<>>
    /\ index_log = <<>>
    /\ tx = <<>>
    /\ search_queries = <<>>
    /\ engine = <<>>
    /\ job = [pc |-> "none"]
    /\ seed_url = SeedA
    /\ max_pages = 1
    /\ max_concurrent = 1
    /\ include_subdomains = FALSE
    /\ visited = {}
    /\ to_visit = <<>>
    /\ results = <<>>
    /\ batch = <<>>
    /\ bi = 0
    /\ nlinks = 0
    /\ pc = "idle"
    /\ linked = {}

\* SearchService.get_contents(urls) is called.
GetContents ==
    /\ Quiet
    /\ \E n \in 1..MaxUrls : \E urls \in [1..n -> SvcUrls] :
          op' = [name |-> "get_contents", stage |-> "loop", urls |-> urls]
    /\ ret' = <<>>
    /\ UNCHANGED <<storeVars, histVars, otherThanService>>

\* One iteration of "for url in urls": a stored page is returned as it is; a
\* URL not stored is crawled and, unless the crawl failed, saved (and not
\* indexed).  commit_ok: the commit of _save_page goes through; when it does
\* not, its exception leaves get_contents (stage "raised").
GetContentsUrl ==
    /\ op.name = "get_contents"
    /\ op.stage = "loop"
    /\ Len(ret) < Len(op.urls)
    /\ LET url == op.urls[Len(ret) + 1]
           page == GetPageByUrl(web_pages, url)
       IN IF page # {}
          THEN /\ ret' = Append(ret, [url |-> url, status |-> "success",
                                      cached |-> TRUE])
               /\ UNCHANGED <<op, storeVars, histVars>>
          ELSE \E crawl_result \in CrawlResults, commit_ok \in BOOLEAN :
                  IF crawl_result.error
                  THEN /\ ret' = Append(ret, [url |-> url, status |-> "error",
                                              cached |-> FALSE])
                       /\ UNCHANGED <<op, storeVars, histVars>>
                  ELSE IF ~commit_ok
                  THEN /\ op' = [op EXCEPT !.stage = "raised"]
                       /\ UNCHANGED <<ret, storeVars, histVars>>
                  ELSE LET saved == SavePage(web_pages, url, crawl_result.content)
                       IN /\ web_pages' = saved.web_pages
                          /\ index_log' = Append(index_log, "not_indexed")
                          /\ ret' = Append(ret, [url |-> url, status |-> "success",
                                          cached |-> FALSE])
                          /\ UNCHANGED <<op, page_chunks, search_queries>>
    /\ UNCHANGED otherThanService

\* get_contents returns its results.
GetContentsReturn ==
    /\ op.name = "get_contents"
    /\ op.stage = "loop"
    /\ Len(ret) = Len(op.urls)
    /\ op' = [op EXCEPT !.stage = "returned"]
    /\ UNCHANGED <<ret, storeVars, histVars, otherThanService>>

\* SearchService.find_similar(url, num_results, exclude_source_domain) up to
\* the call of find_similar_to_page: get the source page, or crawl, save and
\* index it.  An exception of _index_page leaves the call (stage "raised").
FindSimilar ==
    /\ Quiet
    /\ \E url \in SvcUrls, num_results \in 1..MaxK, exclude_source_domain \in BOOLEAN :
          LET page == GetPageByUrl(web_pages, url)
              call == [name |-> "find_similar", url |-> url, limit |-> num_results,
                       exclude_source_domain |-> exclude_source_domain]
          IN IF page # {}
             THEN /\ op' = call @@ [stage |-> "delegate", page_id |-> Val(page)]
                  /\ ret' = <<>>
                  /\ UNCHANGED <<storeVars, histVars>>
             ELSE \E crawl_result \in CrawlResults :
                  \E embeddings \in EmbedOutcomes(crawl_result.content.content) :
                     LET saved == SavePage(web_pages, url, crawl_result.content)
                         ix == IndexPage(page_chunks, saved.id,
                                         crawl_result.content.content, embeddings)
                     IN IF crawl_result.error
                        THEN /\ op' = call @@ [stage |-> "returned", page_id |-> 0]
                             /\ ret' = <<>>
                             /\ UNCHANGED <<storeVars, histVars>>
                        ELSE /\ web_pages' = saved.web_pages
                             /\ page_chunks' = ix.page_chunks
                             /\ UNCHANGED search_queries
                             /\ index_log' = Append(index_log, ix.outcome)
                             /\ op' = call @@
                                   [stage |-> IF ix.outcome \in {"raised", "no_return"}
                                              THEN "raised" ELSE "delegate",
                                    page_id |-> saved.id]
                             /\ ret' = <<>>
    /\ UNCHANGED otherThanService

\* find_similar, the rest: find_similar_to_page for the source page.
FindSimilarDelegate ==
    /\ op.name = "find_similar"
    /\ op.stage = "delegate"
    /\ ret' \in SimilarToPage(op.page_id, op.limit, op.exclude_source_domain)
    /\ op' = [op EXCEPT !.stage = "returned"]
    /\ UNCHANGED <<storeVars, histVars, otherThanService>>

\* run_crawl_job, one iteration of "for crawl_result in results" for a result
\* with content: save the page and index it; an exception of either is caught
\* and the loop goes on to the next result.
CrawlJobIndexResult ==
    /\ Quiet
    /\ \E url \in SvcUrls, content \in CrawlContents :
       \E embeddings \in EmbedOutcomes(content.content) :
          LET saved == SavePage(web_pages, url, content)
              ix == IndexPage(page_chunks, saved.id, content.content, embeddings)
              call == [name |-> "run_crawl_job", url |-> url,
                       content |-> content.content]
          IN IF saved.raised
             THEN /\ op' = call @@ [stage |-> "skipped", saved |-> FALSE]
                  /\ UNCHANGED <<storeVars, histVars>>
             ELSE /\ web_pages' = saved.web_pages
                  /\ page_chunks' = ix.page_chunks
                  /\ UNCHANGED search_queries
                  /\ index_log' = Append(index_log, ix.outcome)
                  /\ op' = call @@
                        [stage |-> IF ix.outcome \in {"raised", "no_return"}
                                   THEN "skipped" ELSE "indexed",
                         saved |-> TRUE]
    /\ ret' = <<>>
    /\ UNCHANGED otherThanService

NextService ==
    \/ GetContents \/ GetContentsUrl \/ GetContentsReturn
    \/ FindSimilar \/ FindSimilarDelegate
    \/ CrawlJobIndexResult

SpecService == InitService /\ [][NextService]_vars

\* ------------------------------------------------------------------------
\* Claims on the stored pages and chunks (checked under SpecService)
\* ------------------------------------------------------------------------
\* C9: re-crawling a stored URL updates its row: there is at most one page
\* row per URL, and after a crawl job has crawled a URL and gone through its
\* save, the row of that URL holds the content this crawl extracted.
C9_RecrawlUpdatesRow ==
    /\ \A i, j \in DOMAIN web_pages : web_pages[i].url = web_pages[j].url => i = j
    /\ op.name = "run_crawl_job" =>
          \E id \in DOMAIN web_pages :
              /\ web_pages[id].url = op.url
              /\ web_pages[id].content = op.content

\* The rows of page_chunks that belong to a page.
ChunkRowsOf(id) == {i \in 1..Len(page_chunks) : page_chunks[i].page_id = id}

\* The chunk_index values of the page are exactly 0..n-1 for its n rows.
Dense(id) ==
    {page_chunks[i].chunk_index : i \in ChunkRowsOf(id)}
        = 0..(Cardinality(ChunkRowsOf(id)) - 1)

HasText(page) == page.content # NULL /\ Val(page.content) # <<>>

\* C10 as stated: once the calls made have completed, every stored page with
\* non-empty text has chunks, and their chunk_index values are exactly
\* 0..n-1 with n >= 1.
C10_ChunkDensity ==
    Quiet =>
        \A id \in DOMAIN web_pages :
            HasText(web_pages[id]) =>
                Cardinality(ChunkRowsOf(id)) >= 1 /\ Dense(id)

\* C10 (amended): the chunk_index values of every stored page are exactly
\* 0..n-1, without gaps or duplicates, and every chunk row belongs to a stored
\* page.  n >= 1 exactly for the pages whose indexing ran to its end, and
\* these have non-empty text; a page saved by get_contents, a page whose
\* embedding failed, and a page without text have no chunks.
C10_DenseWhereIndexed ==
    /\ \A i \in 1..Len(page_chunks) : page_chunks[i].page_id \in DOMAIN web_pages
    /\ DOMAIN index_log = DOMAIN web_pages
    /\ \A id \in DOMAIN web_pages :
          /\ Dense(id)
          /\ Cardinality(ChunkRowsOf(id)) >= 1 <=> index_log[id] = "indexed"
          /\ index_log[id] = "indexed" => HasText(web_pages[id])
          /\ HasText(web_pages[id]) =>
                index_log[id] \in {"indexed", "not_indexed", "raised"}

\* C10 witness: a page with a text longer than one chunk was indexed and
\* holds three chunks, and another page with text was saved by get_contents.
C10_Witness ==
    \E id, other \in DOMAIN web_pages :
        /\ index_log[id] = "indexed"
        /\ Cardinality(ChunkRowsOf(id)) = 3
        /\ index_log[other] = "not_indexed"
        /\ HasText(web_pages[other])

\* C19: get_contents never fails wholesale: every call that has left its loop
\* has returned one entry per input URL, in input order, and the entry of a
\* URL whose crawl failed has status "error"; a failure to save one URL's
\* page does not keep the entries of the other URLs from being returned.
C19_EntryPerUrl ==
    (op.name = "get_contents" /\ op.stage # "loop")
    => /\ op.stage = "returned"
       /\ Len(ret) = Len(op.urls)
       /\ \A i \in 1..Len(ret) : ret[i].url = op.urls[i]

\* C20: whenever find_similar delegates to find_similar_to_page for a source
\* page with non-empty text, the page has chunk rows, and each of them has an
\* embedding.
C20_SourceIndexed ==
    (/\ op.name = "find_similar"
     /\ op.stage = "delegate"
     /\ HasText(web_pages[op.page_id]))
    => /\ ChunkRowsOf(op.page_id) # {}
       /\ \A i \in ChunkRowsOf(op.page_id) : page_chunks[i].embedding # NULL

\* ------------------------------------------------------------------------
\* VectorStore.upsert_chunks, statement by statement, on concurrent sessions
\* ------------------------------------------------------------------------
MaxOld == 2            \* chunk rows a page holds before the calls
MaxNew == 2            \* chunks handed to one upsert_chunks call

\* Each call runs on its own AsyncSession (autocommit=False): its statements
\* belong to one transaction of the database, at READ COMMITTED.
Sessions == {1, 2}

UpsertPages == {1, 2}

\* The chunk text a session writes (distinct per session and from the old rows).
SessionText(s) == IF s = 1 THEN <<"a">> ELSE <<"b">>

\* The rows of a page in a table, in table order.
PageRows(chunks_tbl, page_id) == SelectSeq(chunks_tbl, LAMBDA r : r.page_id = page_id)

RowSet(rows) == {rows[i] : i \in 1..Len(rows)}

\* The PageChunk objects the call adds to its session: chunk_index from
\* enumerate(zip(chunks, embeddings)).
NewRows(t) == UpsertChunks(<<>>, t.page_id, t.chunks, t.embeddings)

\* Row locks: a transaction that has deleted rows and has not ended holds them.
LockedByOther(s, rows) ==
    \E o \in Sessions \ {s} : tx[o].pc = "deleted" /\ tx[o].deleted \cap rows # {}

\* Mutant of AfterRollback: the DELETE stays although the transaction failed.
AfterRollbackKeepsDelete(chunks_tbl, t) ==
    SelectSeq(chunks_tbl, LAMBDA r : r \notin t.deleted)

\* The table after a transaction that failed in its flush or its COMMIT: the
\* database rolls the transaction back, the DELETE with it.
AfterRollback(chunks_tbl, t) == chunks_tbl

\* The table after the COMMIT: the rows the DELETE took are gone, the added
\* rows are in.
AfterCommit(chunks_tbl, t) ==
    SelectSeq(chunks_tbl, LAMBDA r : r \notin t.deleted) \o NewRows(t)

InitUpsert ==
    /\ web_pages = [id \in UpsertPages |-> PageRow(PageUrl(id), TextX, NULL, NULL)]
    /\ \E old \in [UpsertPages -> 0..MaxOld] :
          page_chunks =
              UpsertChunks(<<>>, 1, [i \in 1..old[1] |-> [content |-> TextX]],
                           [i \in 1..old[1] |-> <<1, 0>>])
              \o UpsertChunks(<<>>, 2, [i \in 1..old[2] |-> [content |-> TextX]],
                              [i \in 1..old[2] |-> <<1, 0>>])
    /\ tx = [s \in Sessions |-> [pc |-> "idle", page_id |-> 0, chunks |-> <<>>,
                                 embeddings |-> <<>>, deleted |-> {}, before |-> <<>>]]
    /\ search_queries = <<>>
    /\ engine = <<>>
    /\ job = [pc |-> "none"]
    /\ op = [name |-> "idle", stage |-> "returned"]
    /\ ret = <<>>
    /\ index_log = <<>>
    /\ seed_url = SeedA
    /\ max_pages = 1
    /\ max_concurrent = 1
    /\ include_subdomains = FALSE
    /\ visited = {}
    /\ to_visit = <<>>
    /\ results = <<>>
    /\ batch = <<>>
    /\ bi = 0
    /\ nlinks = 0
    /\ pc = "idle"
    /\ linked = {}

\* upsert_chunks is called and executes its DELETE.  The statement takes the
\* page's committed rows; when another transaction holds a lock on one of
\* them it waits.
UpsertDelete ==
    \E s \in Sessions, page_id \in UpsertPages, n \in 1..MaxNew, e \in Emb :
        LET rows == RowSet(PageRows(page_chunks, page_id))
        IN /\ tx[s].pc = "idle"
           /\ tx' = [tx EXCEPT ![s] =
                        [pc |-> IF LockedByOther(s, rows) THEN "waiting" ELSE "deleted",
                         page_id |-> page_id,
                         chunks |-> [i \in 1..n |-> [content |-> SessionText(s)]],
                         embeddings |-> [i \in 1..n |-> e],
                         deleted |-> rows,
                         before |-> PageRows(page_chunks, page_id)]]
           /\ UNCHANGED <<storeVars, callVars, histVars, crawlVars, jobVars, engineVars>>

\* The lock holder has ended: the waiting DELETE goes on.  It skips the rows
\* a committed transaction has deleted meanwhile, and does not see the rows
\* that transaction added.
UpsertDeleteResume ==
    \E s \in Sessions :
        /\ tx[s].pc = "waiting"
        /\ ~LockedByOther(s, tx[s].deleted)
        /\ tx' = [tx EXCEPT ![s].pc = "deleted",
                            ![s].deleted = @ \cap RowSet(page_chunks)]
        /\ UNCHANGED <<storeVars, callVars, histVars, crawlVars, jobVars, engineVars>>

\* "await self.db.commit()" succeeds: the INSERTs are flushed and the
\* transaction commits.
UpsertCommit ==
    \E s \in Sessions :
        /\ tx[s].pc = "deleted"
        /\ page_chunks' = AfterCommit(page_chunks, tx[s])
        /\ tx' = [tx EXCEPT ![s].pc = "committed"]
        /\ UNCHANGED <<web_pages, search_queries, callVars, histVars, crawlVars, jobVars, engineVars>>

\* "await self.db.commit()" raises: an INSERT of the flush or the COMMIT
\* failed.
UpsertFail ==
    \E s \in Sessions :
        /\ tx[s].pc = "deleted"
        /\ page_chunks' = AfterRollback(page_chunks, tx[s])
        /\ tx' = [tx EXCEPT ![s].pc = "failed"]
        /\ UNCHANGED <<web_pages, search_queries, callVars, histVars, crawlVars, jobVars, engineVars>>

NextUpsert == UpsertDelete \/ UpsertDeleteResume \/ UpsertCommit \/ UpsertFail

SpecUpsert == InitUpsert /\ [][NextUpsert]_vars

\* ------------------------------------------------------------------------
\* Claims on upsert_chunks (checked under SpecUpsert)
\* ------------------------------------------------------------------------
\* No other session has committed an upsert of the page session s works on.
Alone(s) ==
    \A o \in Sessions \ {s} :
        tx[o].pc # "committed" \/ tx[o].page_id # tx[s].page_id

\* C11: upsert_chunks is all-or-nothing.  While a call is between its DELETE
\* and the end of its commit, and after the commit has failed, the page's
\* stored chunks are exactly those stored before the call; after a commit
\* that succeeded they are exactly the new ones.
C11_AllOrNothing ==
    \A s \in Sessions :
        Alone(s) =>
            /\ tx[s].pc \in {"waiting", "deleted", "failed"} =>
                  PageRows(page_chunks, tx[s].page_id) = tx[s].before
            /\ tx[s].pc = "committed" =>
                  PageRows(page_chunks, tx[s].page_id) = NewRows(tx[s])

\* C11 witness: a call on a page that held chunks failed after its DELETE.
C11_Witness ==
    \E s \in Sessions :
        /\ tx[s].pc = "failed"
        /\ tx[s].deleted # {}
        /\ Alone(s)

\* C12: two concurrent upsert_chunks calls on one page are serialized: once
\* both have committed, the page holds exactly the chunk list of one of them
\* and no two of its chunks have the same chunk_index.
C12_LastWriterWins ==
    \A s, o \in Sessions :
        (/\ s # o
         /\ tx[s].pc = "committed"
         /\ tx[o].pc = "committed"
         /\ tx[s].page_id = tx[o].page_id)
        => LET rows == PageRows(page_chunks, tx[s].page_id)
           IN /\ rows \in {NewRows(tx[s]), NewRows(tx[o])}
              /\ \A i, j \in 1..Len(rows) :
                    i # j => rows[i].chunk_index # rows[j].chunk_index

\* ------------------------------------------------------------------------
\* run_crawl_job: the background worker of one CrawlJob
\* ------------------------------------------------------------------------
\* The columns of crawl_jobs the worker writes (completed_at: set or not).
JobRow(status, pages_crawled, pages_indexed, completed_at) ==
    [status |-> status, pages_crawled |-> pages_crawled,
     pages_indexed |-> pages_indexed, completed_at |-> completed_at]

\* "await db.commit()" on the worker's session.  It writes the CrawlJob object
\* to the row when the session's transaction is active and the database
\* accepts it; a failed commit leaves the session's transaction inactive, and
\* every later commit on the session raises.
CanCommit(j, db_ok) == j.session = "active" /\ db_ok

Commit(j, db_ok) ==
    IF CanCommit(j, db_ok) THEN [j EXCEPT !.row = j.mem]
    ELSE [j EXCEPT !.session = "inactive"]

\* Mutant of MarkFailed: the except branch leaves completed_at unset.
MarkFailedNoTimestamp(mem) == [mem EXCEPT !.status = "failed"]

\* except Exception: job.status = "failed"; job.completed_at = utcnow()
MarkFailed(mem) == [mem EXCEPT !.status = "failed", !.completed_at = TRUE]

\* job.status = "completed"; job.completed_at = utcnow()
MarkCompleted(mem) == [mem EXCEPT !.status = "completed", !.completed_at = TRUE]

\* indexed_count += 1, in iteration i of the loop over the results
CountIndexed(indexed_count, i) == indexed_count + 1

\* The URLs the walk of the job fetches, in the order it fetches them.
JobUrls == <<SeedA, UrlAy, SeedSub>>

\* The progress callback has run for every result crawl_site has finished.
CallbackDone == job.mem.pages_crawled = Len(results)

InitJob ==
    /\ seed_url = SeedA
    /\ max_pages \in 1..MaxPages
    /\ max_concurrent = MaxConcurrent
    /\ include_subdomains \in BOOLEAN
    /\ visited = {}
    /\ to_visit = <<>>
    /\ results = <<>>
    /\ batch = <<>>
    /\ bi = 0
    /\ nlinks = 0
    /\ pc = "loop"
    /\ linked = {}
    /\ \E stored \in {<<>>, <<SeedA>>, <<UrlAy>>} :
          /\ web_pages = [k \in 1..Len(stored) |->
                              PageRow(stored[k], Some(TextX), NULL, NULL)]
          /\ index_log = [k \in 1..Len(stored) |-> "not_indexed"]
    /\ page_chunks = <<>>
    /\ op = [name |-> "idle", stage |-> "returned"]
    /\ ret = <<>>
    /\ tx = <<>>
    /\ search_queries = <<>>
    /\ engine = <<>>
    /\ job = [pc |-> "pending", session |-> "active",
              mem |-> JobRow("pending", 0, 0, FALSE),
              row |-> JobRow("pending", 0, 0, FALSE),
              indexed_count |-> 0, i |-> 1]

\* The worker starts: job.status = "running", commit (outside the try).
JobStart ==
    /\ job.pc = "pending"
    /\ \E db_ok \in BOOLEAN :
          LET j == Commit([job EXCEPT !.mem.status = "running"], db_ok)
          IN job' = [j EXCEPT !.pc = IF CanCommit(job, db_ok) THEN "run" ELSE "raised"]
    /\ UNCHANGED <<crawlVars, storeVars, callVars, histVars, txVars, engineVars>>

\* crawl_site as the worker sees it: which URLs the frontier holds is left
\* open, but for the first pass, where it holds the seed.  One pass of the
\* outer loop up to the await: a batch of at most batch_size URLs not visited
\* before.
JobNextBatch ==
    /\ job.pc = "run"
    /\ pc = "loop"
    /\ CallbackDone
    /\ Len(results) < max_pages
    /\ \E n \in 1..BatchSize(max_concurrent, max_pages, Len(results)) :
          /\ Len(results) + n <= Len(JobUrls)
          /\ results = <<>> => n = 1
          /\ batch' = [k \in 1..n |-> JobUrls[Len(results) + k]]
          /\ visited' = visited \cup {Normalize(JobUrls[Len(results) + k]) : k \in 1..n}
    /\ bi' = 1
    /\ pc' = "process"
    /\ UNCHANGED <<seed_url, max_pages, max_concurrent, include_subdomains,
                   to_visit, results, nlinks, linked>>
    /\ UNCHANGED otherThanCrawl

\* "for result in batch_results": results.append(result), the result's links
\* go to the frontier, and the callback is due.
JobAppendResult ==
    /\ job.pc = "run"
    /\ pc = "process"
    /\ CallbackDone
    /\ \E ok \in BOOLEAN :
          results' = Append(results, [url |-> batch[bi], error |-> ~ok])
    /\ bi' = bi + 1
    /\ pc' = IF bi = Len(batch) THEN "loop" ELSE "process"
    /\ UNCHANGED <<seed_url, max_pages, max_concurrent, include_subdomains,
                   visited, to_visit, batch, nlinks, linked>>
    /\ UNCHANGED otherThanCrawl

\* The outer loop ends (the frontier is empty or max_pages results are in):
\* crawl_site returns.
JobReturnResults ==
    /\ job.pc = "run"
    /\ pc = "loop"
    /\ CallbackDone
    /\ pc' = "done"
    /\ UNCHANGED <<seed_url, max_pages, max_concurrent, include_subdomains,
                   visited, to_visit, results, batch, bi, nlinks, linked>>
    /\ UNCHANGED otherThanCrawl

\* progress_callback(crawled, total, result): job.pages_crawled = crawled,
\* commit.  An exception of the commit leaves crawl_site and the try.
JobCallback ==
    /\ job.pc = "run"
    /\ pc \in {"process", "loop"}
    /\ ~CallbackDone
    /\ \E db_ok \in BOOLEAN :
          LET j == Commit([job EXCEPT !.mem.pages_crawled = Len(results)], db_ok)
          IN job' = [j EXCEPT !.pc = IF CanCommit(job, db_ok) THEN "run" ELSE "except"]
    /\ UNCHANGED <<crawlVars, storeVars, callVars, histVars, txVars, engineVars>>

\* An exception other than a commit's inside the try: the browser does not
\* start, crawl_site raises, closing the crawler raises.
JobRaise ==
    /\ job.pc = "run"
    /\ job' = [job EXCEPT !.pc = "except"]
    /\ UNCHANGED <<crawlVars, storeVars, callVars, histVars, txVars, engineVars>>

\* Mutant of PageFailed: the exception of one page leaves the loop and the try.
PageFailedAborts(j) == [j EXCEPT !.pc = "except"]

\* "except Exception as e: print(...); continue" inside the loop: the worker
\* goes on with the next result.
PageFailed(j) == [j EXCEPT !.i = @ + 1]

\* crawl_site has returned and the loop over its results is at result i.
InIndexLoop == job.pc = "run" /\ pc = "done" /\ CallbackDone

\* "for crawl_result in results", a result without content: no work.
JobSkipResult ==
    /\ InIndexLoop
    /\ job.i <= Len(results)
    /\ results[job.i].error
    /\ job' = [job EXCEPT !.i = @ + 1]
    /\ UNCHANGED <<crawlVars, storeVars, callVars, histVars, txVars, engineVars>>

\* "for crawl_result in results", a result with content: _save_page (commit),
\* _index_page (chunk, embed, upsert_chunks with its commit), indexed_count,
\* job.pages_indexed, commit.  fail names the commit the database refuses, if
\* any.  The first exception ends the iteration: it is caught and the loop
\* goes on.  On a text for which chunk_text does not return the worker stays
\* in chunk_text, the page saved.
JobIndexResult ==
    /\ InIndexLoop
    /\ job.i <= Len(results)
    /\ ~results[job.i].error
    /\ \E content \in JobContents, fail \in {"none", "save", "upsert", "job"} :
       \E embeddings \in EmbedOutcomes(content.content) :
          LET saved == SavePage(web_pages, results[job.i].url, content)
              save_ok == CanCommit(job, fail # "save") /\ ~saved.raised
              ix == IndexPage(page_chunks, saved.id, content.content, embeddings)
              upsert_ok == ix.outcome # "indexed" \/ fail # "upsert"
              returns == ix.outcome \in {"no_content", "no_chunks", "indexed"} /\ upsert_ok
              counted == [job EXCEPT
                             !.indexed_count = CountIndexed(@, job.i),
                             !.mem.pages_indexed = CountIndexed(job.indexed_count, job.i)]
          IN IF ~save_ok
                THEN /\ job' = PageFailed([job EXCEPT !.session = "inactive"])
                     /\ UNCHANGED <<storeVars, histVars>>
                ELSE IF ix.outcome = "no_return"
                THEN /\ web_pages' = saved.web_pages
                     /\ index_log' = Append(index_log, ix.outcome)
                     /\ job' = [job EXCEPT !.pc = "chunking"]
                     /\ UNCHANGED <<page_chunks, search_queries>>
                ELSE /\ web_pages' = saved.web_pages
                     /\ page_chunks' = IF upsert_ok THEN ix.page_chunks ELSE page_chunks
                     /\ UNCHANGED search_queries
                     /\ index_log' = Append(index_log,
                                            IF upsert_ok THEN ix.outcome ELSE "raised")
                     /\ job' = IF returns
                               THEN [Commit(counted, fail # "job") EXCEPT !.i = @ + 1]
                               ELSE PageFailed([job EXCEPT
                                                   !.session = IF upsert_ok THEN @
                                                               ELSE "inactive"])
    /\ UNCHANGED <<crawlVars, callVars, txVars, engineVars>>

\* After the loop: job.status = "completed", commit.
JobComplete ==
    /\ InIndexLoop
    /\ job.i > Len(results)
    /\ \E db_ok \in BOOLEAN :
          LET j == Commit([job EXCEPT !.mem = MarkCompleted(@)], db_ok)
          IN job' = [j EXCEPT !.pc = IF CanCommit(job, db_ok) THEN "done" ELSE "except"]
    /\ UNCHANGED <<crawlVars, storeVars, callVars, histVars, txVars, engineVars>>

\* except Exception: job.status = "failed", commit.  When this commit raises,
\* the exception leaves run_crawl_job.
JobExcept ==
    /\ job.pc = "except"
    /\ \E db_ok \in BOOLEAN :
          LET j == Commit([job EXCEPT !.mem = MarkFailed(@)], db_ok)
          IN job' = [j EXCEPT !.pc = IF CanCommit(job, db_ok) THEN "done" ELSE "raised"]
    /\ UNCHANGED <<crawlVars, storeVars, callVars, histVars, txVars, engineVars>>

\* The worker's task is cancelled while it waits in the try or in the
\* failure handler: CancelledError is not an Exception, no handler of
\* run_crawl_job catches it, and it leaves the worker.
JobCancel ==
    /\ job.pc \in {"run", "except"}
    /\ job' = [job EXCEPT !.pc = "cancelled"]
    /\ UNCHANGED <<crawlVars, storeVars, callVars, histVars, txVars, engineVars>>

NextJob ==
    \/ JobStart \/ JobNextBatch \/ JobAppendResult \/ JobReturnResults
    \/ JobCallback \/ JobRaise
    \/ JobSkipResult \/ JobIndexResult \/ JobComplete \/ JobExcept
    \/ JobCancel

SpecJob == InitJob /\ [][NextJob]_vars

\* The event loop runs the worker as long as it has a step to take.
SpecJobFair == SpecJob /\ WF_vars(NextJob)

\* The moves of the persisted status the state machine of CrawlJob allows.
StatusMoves ==
    {<<"pending", "running">>, <<"running", "completed">>, <<"running", "failed">>}

\* C13: the persisted status of a CrawlJob only moves pending -> running ->
\* (completed | failed): every change of the row's status is one of these
\* moves (so none goes backwards, skips running or leaves a terminal status),
\* and a row whose status is completed or failed has completed_at set.
C13_StatusOneWay ==
    [][/\ job'.row.status # job.row.status
          => <<job.row.status, job'.row.status>> \in StatusMoves
       /\ job'.row.status \in {"completed", "failed"} => job'.row.completed_at
      ]_vars

\* C13 witness: the worker failed after it had indexed a page, and the row
\* says so.
C13_Witness ==
    /\ job.pc = "done"
    /\ job.row.status = "failed"
    /\ job.row.pages_indexed >= 1

\* C14: in every state pages_indexed <= pages_crawled <= max_pages holds of
\* the job's row, and no step of the job lowers either counter.
C14_CountersOrdered ==
    /\ [](/\ job.row.pages_indexed <= job.row.pages_crawled
          /\ job.row.pages_crawled <= max_pages)
    /\ [][/\ job'.row.pages_crawled >= job.row.pages_crawled
          /\ job'.row.pages_indexed >= job.row.pages_indexed]_vars

\* C14 witness: a completed job that crawled max_pages pages and indexed more
\* than one of them, but not all.
C14_Witness ==
    /\ job.row.status = "completed"
    /\ job.row.pages_crawled = max_pages
    /\ job.row.pages_indexed > 1
    /\ job.row.pages_indexed < job.row.pages_crawled

\* C22: a job during which a database write failed (saving a page, writing
\* chunks, updating the job's row) ends in status failed: once the worker has
\* ended after a failed commit on its session, the row says failed.
C22_WriteFailureFailsJob ==
    (/\ job.pc \in {"done", "raised"}
     /\ job.session = "inactive"
     /\ job.row.status # "pending")
    => job.row.status = "failed"

\* Nothing but embeddings has failed in the job so far: no commit on the
\* worker's session was refused and no exception has left the loop.
OnlyEmbeddingFailed ==
    /\ job.pc \in {"run", "done"}
    /\ pc = "done"
    /\ CallbackDone
    /\ job.session = "active"
    /\ job.mem.status # "failed"

\* The results with content the loop has gone through.
ResultsDone == {k \in 1..(job.i - 1) : ~results[k].error}

\* The page rows stored for the URL of result k.
PagesOfResult(k) == GetPageByUrl(web_pages, results[k].url)

\* C23: an embedding failure on one page does not fail the job.  The step in
\* which the embedding of a page fails moves the worker to the next result,
\* and while nothing but embeddings has failed, every result with content the
\* loop went through is saved, each of them whose embedding did not fail has
\* the chunk rows of its text and is counted in pages_indexed, and the
\* worker, once ended, has committed status completed past the last result.
C23_EmbeddingFailureSkipsPage ==
    /\ [](OnlyEmbeddingFailed =>
            /\ \A k \in ResultsDone :
                  \E id \in PagesOfResult(k) :
                      index_log[id] # "raised" =>
                          Cardinality(ChunkRowsOf(id))
                              = Len(ChunksOf(web_pages[id].content))
            /\ job.row.pages_indexed =
                  Cardinality({k \in ResultsDone :
                                  \E id \in PagesOfResult(k) :
                                      index_log[id] # "raised"})
            /\ job.pc = "done" =>
                  job.row.status = "completed" /\ job.i > Len(results))
    /\ [][(/\ Len(index_log') = Len(index_log) + 1
           /\ index_log'[Len(index_log')] = "raised"
           /\ job'.session = "active")
          => job'.pc = "run" /\ job'.i = job.i + 1]_vars

\* C23 witness: a completed job in which the embedding of one page failed and
\* a page after it was indexed.
C23_Witness ==
    /\ job.pc = "done"
    /\ job.row.status = "completed"
    /\ \E a, b \in DOMAIN index_log :
          /\ a < b
          /\ index_log[a] = "raised"
          /\ index_log[b] = "indexed"
          /\ ChunkRowsOf(b) # {}

\* C30: pages_indexed never exceeds the number of pages for which the job
\* stored chunks (page_chunks is empty when the job starts); a page saved with
\* empty or missing text has none and is not counted.
C30_IndexedHaveChunks ==
    job.row.pages_indexed
        <= Cardinality({id \in DOMAIN web_pages : ChunkRowsOf(id) # {}})

\* C29: every job whose worker has committed status running eventually has
\* status completed or failed, also when the worker is cancelled, when
\* chunk_text does not return, or when the commit of the failure handler
\* fails.
C29_JobEnds ==
    (job.row.status = "running") ~> (job.row.status \in {"completed", "failed"})

\* ------------------------------------------------------------------------
\* _index_page called again on a stored page
\* ------------------------------------------------------------------------
MaxIndexRuns == 3

\* The page indexed again and again, and another page whose rows stay.
ReindexPageId == 1

OtherPageId == 2

TextTwice == TextLong \o TextLong

ReindexTexts == {TextX, TextLong, TextTwice}

\* The (chunk_index, text) pairs of the page's rows.
IndexTextPairs(chunks_tbl, page_id) ==
    {<<r.chunk_index, r.content>> : r \in RowSet(PageRows(chunks_tbl, page_id))}

\* The page is stored with one of the texts; page_chunks holds a row of the
\* other page and, maybe, rows left for this page by an earlier text.
InitReindex ==
    /\ \E t \in ReindexTexts :
          web_pages = <<PageRow(SeedA, Some(t), NULL, NULL),
                        PageRow(UrlBx, Some(TextX), NULL, NULL)>>
    /\ \E old \in {<<>>, <<TextX>>, <<TextX, TextX>>}, e \in Emb :
          page_chunks = <<ChunkRow(OtherPageId, 0, TextX, Some(e))>>
                        \o [i \in 1..Len(old) |->
                               ChunkRow(ReindexPageId, i - 1, old[i], Some(e))]
    /\ op = [name |-> "index_page", runs |-> 0, first |-> NULL,
             embed_failed |-> FALSE]
    /\ ret = <<>>
    /\ index_log = <<>>
    /\ tx = <<>>
    /\ search_queries = <<>>
    /\ engine = <<>>
    /\ job = [pc |-> "none"]
    /\ seed_url = SeedA
    /\ max_pages = 1
    /\ max_concurrent = 1
    /\ include_subdomains = FALSE
    /\ visited = {}
    /\ to_visit = <<>>
    /\ results = <<>>
    /\ batch = <<>>
    /\ bi = 0
    /\ nlinks = 0
    /\ pc = "done"
    /\ linked = {}

\* One call of _index_page(page) on the stored page.  commit_ok: the commit
\* of upsert_chunks goes through; when it does not, the transaction with the
\* DELETE and the INSERTs is rolled back.  op.first keeps the rows the first
\* call that returned left for the page, op.embed_failed whether embed_texts
\* raised in the last call.
ReindexPage ==
    /\ op.name = "index_page"
    /\ op.runs < MaxIndexRuns
    /\ \E embeddings \in EmbedOutcomes(web_pages[ReindexPageId].content),
          commit_ok \in BOOLEAN :
          LET ix == IndexPage(page_chunks, ReindexPageId,
                              web_pages[ReindexPageId].content, embeddings)
              stored == ix.outcome # "indexed" \/ commit_ok
              returned == ix.outcome \in {"no_content", "no_chunks", "indexed"} /\ stored
              after == IF stored THEN ix.page_chunks ELSE page_chunks
          IN /\ ix.outcome # "no_return"
             /\ page_chunks' = after
             /\ UNCHANGED search_queries
             /\ index_log' = Append(index_log, IF stored THEN ix.outcome ELSE "raised")
             /\ op' = [op EXCEPT
                          !.runs = @ + 1,
                          !.embed_failed = (ix.outcome = "raised"),
                          !.first = IF op.first = NULL /\ returned
                                    THEN Some(PageRows(after, ReindexPageId))
                                    ELSE @]
    /\ UNCHANGED <<web_pages, search_queries, ret, crawlVars, txVars, jobVars, engineVars>>

NextReindex == ReindexPage

SpecReindex == InitReindex /\ [][NextReindex]_vars

\* C15: indexing a page whose text has not changed again leaves it with as
\* many chunks, and the same (chunk_index, text) pairs, as the first indexing
\* left.
C15_ReindexIdempotent ==
    op.first # NULL
    => /\ Len(PageRows(page_chunks, ReindexPageId)) = Len(Val(op.first))
       /\ IndexTextPairs(page_chunks, ReindexPageId)
              = {<<r.chunk_index, r.content>> : r \in RowSet(Val(op.first))}

\* C15 witness: the page, with a text of several chunks, has been indexed
\* twice, both times to the end.
C15_Witness ==
    /\ op.first # NULL
    /\ Len(Val(op.first)) > 1
    /\ Len(index_log) >= 2
    /\ index_log[Len(index_log)] = "indexed"
    /\ index_log[Len(index_log) - 1] = "indexed"

\* C24: when embed_texts raises inside _index_page, the call of _index_page
\* raises and page_chunks is as it was before the call.
C24_EmbedFailureKeepsChunks ==
    [][(op'.runs = op.runs + 1 /\ op'.embed_failed)
       => /\ page_chunks' = page_chunks
          /\ index_log' = Append(index_log, "raised")
          /\ op'.first = op.first]_vars

\* C24 witness: the embedding failed in a call on a page that had chunk rows,
\* and the rows are still there.
C24_Witness ==
    /\ op.runs >= 1
    /\ op.embed_failed
    /\ index_log[Len(index_log)] = "raised"
    /\ PageRows(page_chunks, ReindexPageId) # <<>>

\* ------------------------------------------------------------------------
\* _normalize_url on URL strings
\* ------------------------------------------------------------------------
MaxTail == 3

\* The first position p >= from with s[p] = c, or 0 (str.find, from 1).
FindFrom(s, c, from) ==
    LET at == {p \in from..Len(s) : s[p] = c}
    IN IF at = {} THEN 0 ELSE CHOOSE p \in at : \A q \in at : p <= q

\* The characters urlsplit accepts in a scheme, of those the model's URLs use.
SchemeChars == {"h", "t", "p", "s", "f", "a", "x", "y", "A", "T", "Y"}

\* urlsplit, the scheme: the text before the first ':' when it is not empty
\* and made of scheme characters; the scheme is lowered.
SplitScheme(url) ==
    LET i == FindFrom(url, ":", 1)
    IN IF i > 1 /\ \A p \in 1..(i - 1) : url[p] \in SchemeChars
       THEN [scheme |-> Lower(SubSeq(url, 1, i - 1)),
             rest |-> SubSeq(url, i + 1, Len(url))]
       ELSE [scheme |-> <<>>, rest |-> url]

\* urlsplit, the netloc: after a leading "//", up to the first of "/?#".
SplitNetloc(url) ==
    IF Len(url) >= 2 /\ SubSeq(url, 1, 2) = <<"/", "/">>
    THEN LET ends == {p \in 3..Len(url) : url[p] \in {"/", "?", "#"}}
             delim == IF ends = {} THEN Len(url) + 1
                      ELSE CHOOSE p \in ends : \A q \in ends : p <= q
         IN [netloc |-> SubSeq(url, 3, delim - 1),
             rest |-> SubSeq(url, delim, Len(url))]
    ELSE [netloc |-> <<>>, rest |-> url]

\* url.split(c, 1) when c occurs in url.
SplitAt(url, c) ==
    LET i == FindFrom(url, c, 1)
    IN IF i = 0 THEN [head |-> url, tail |-> <<>>]
       ELSE [head |-> SubSeq(url, 1, i - 1), tail |-> SubSeq(url, i + 1, Len(url))]

\* _splitparams: the path without the parameters of its last segment.
SplitParams(path) ==
    LET slash == RFind(path, <<"/">>) + 1
        i == FindFrom(path, ";", IF slash > 0 THEN slash ELSE 1)
    IN IF i = 0 THEN path ELSE SubSeq(path, 1, i - 1)

\* urlparse(url), the parts _normalize_url and _is_in_scope read.
Urlparse(url) ==
    LET s == SplitScheme(url)
        n == SplitNetloc(s.rest)
        f == SplitAt(n.rest, "#")
        q == SplitAt(f.head, "?")
    IN Url(s.scheme, n.netloc, SplitParams(q.head), q.tail, f.tail)

\* _normalize_url(url) of a URL string.
NormalizeUrl(url) == Normalize(Urlparse(url))

\* The characters that may follow "https://a.t" in the URLs drawn.
TailChars == {"/", "x", "Y", ";", "?", "#"}

UrlStrings ==
    {HTTPS \o <<":", "/", "/">> \o NetA \o t : t \in SeqsUpTo(TailChars, MaxTail)}

InitNormalize ==
    /\ \E u \in UrlStrings : op = [name |-> "normalize_url", url |-> u, out |-> <<>>]
    /\ ret = <<>>
    /\ web_pages = <<>>
    /\ page_chunks = <<>>
    /\ index_log = <<>>
    /\ tx = <<>>
    /\ search_queries = <<>>
    /\ engine = <<>>
    /\ job = [pc |-> "none"]
    /\ seed_url = SeedA
    /\ max_pages = 1
    /\ max_concurrent = 1
    /\ include_subdomains = FALSE
    /\ visited = {}
    /\ to_visit = <<>>
    /\ results = <<>>
    /\ batch = <<>>
    /\ bi = 0
    /\ nlinks = 0
    /\ pc = "done"
    /\ linked = {}

\* _normalize_url is applied to the URL, then to what it returned.
NormalizeStep ==
    /\ op.name = "normalize_url"
    /\ Len(op.out) < 2
    /\ op' = [op EXCEPT !.out = Append(@, NormalizeUrl(IF op.out = <<>> THEN op.url
                                                       ELSE op.out[Len(op.out)]))]
    /\ UNCHANGED <<ret, storeVars, histVars, crawlVars, txVars, jobVars, engineVars>>

NextNormalize == NormalizeStep

SpecNormalize == InitNormalize /\ [][NextNormalize]_vars

\* C16: URL normalization is idempotent: normalize(normalize(u)) is
\* normalize(u) for every URL u.
C16_NormalizeIdempotent ==
    (op.name = "normalize_url" /\ Len(op.out) = 2) => op.out[2] = op.out[1]

\* ------------------------------------------------------------------------
\* chunk_text, iteration by iteration
\* ------------------------------------------------------------------------
SmallChunkSize == 4

MaxIter == 12

\* "arg or default": the default replaces None and 0.
OrDefault(arg, default) == IF arg = None \/ Val(arg) = 0 THEN default ELSE Val(arg)

\* Two words with a run of whitespace between them.
TextGap == <<"x", "x", "x", "x", " ", " ", " ", " ", " ", " ", " ", "x">>

TextBlank == <<" ", " ", " ", " ", " ", " ">>

\* A word after leading whitespace.
TextLead == <<" ", " ", " ", " ", "x", "x", "x", "x">>

ChunkTexts == {<<>>, TextX, TextLong, TextTail, TextGap, TextBlank, TextLead}

ChunkSizeArgs == {None, Some(SmallChunkSize)}

\* The overlaps passed: none, 0, 1, the small chunk size, and one above it.
ChunkOverlapArgs ==
    {None, Some(0), Some(1), Some(SmallChunkSize), Some(2 * SmallChunkSize - 1)}

InitChunk ==
    /\ \E text \in ChunkTexts, chunk_size \in ChunkSizeArgs,
          chunk_overlap \in ChunkOverlapArgs :
          op = [name |-> "chunk_text", stage |-> "called", text |-> text,
                chunk_size |-> OrDefault(chunk_size, ChunkSize),
                chunk_overlap |-> OrDefault(chunk_overlap, ChunkOverlap),
                start |-> 0, chunks |-> <<>>, iter |-> 0]
    /\ ret = <<>>
    /\ web_pages = <<>>
    /\ page_chunks = <<>>
    /\ index_log = <<>>
    /\ tx = <<>>
    /\ search_queries = <<>>
    /\ engine = <<>>
    /\ job = [pc |-> "none"]
    /\ seed_url = SeedA
    /\ max_pages = 1
    /\ max_concurrent = 1
    /\ include_subdomains = FALSE
    /\ visited = {}
    /\ to_visit = <<>>
    /\ results = <<>>
    /\ batch = <<>>
    /\ bi = 0
    /\ nlinks = 0
    /\ pc = "done"
    /\ linked = {}

\* "if not text or len(text) <= chunk_size: return [...]", else chunks = [],
\* start = 0.
ChunkEnter ==
    /\ op.name = "chunk_text"
    /\ op.stage = "called"
    /\ IF op.text = <<>> \/ Len(op.text) <= op.chunk_size
       THEN /\ op' = [op EXCEPT !.stage = "returned"]
            /\ ret' = WholeText(op.text)
       ELSE /\ op' = [op EXCEPT !.stage = "loop"]
            /\ UNCHANGED ret
    /\ UNCHANGED <<storeVars, histVars, crawlVars, txVars, jobVars, engineVars>>

\* One iteration of "while start < len(text)"; iter counts them.
ChunkIterate ==
    /\ op.name = "chunk_text"
    /\ op.stage = "loop"
    /\ op.start < Len(op.text)
    /\ op.iter < MaxIter
    /\ LET next == ChunkStep(op.text, op.chunk_size, op.chunk_overlap,
                             op.start, op.chunks)
       IN op' = [op EXCEPT !.start = next.start, !.chunks = next.chunks,
                           !.iter = @ + 1]
    /\ UNCHANGED <<ret, storeVars, histVars, crawlVars, txVars, jobVars, engineVars>>

\* The loop condition is false: "return chunks".
ChunkReturn ==
    /\ op.name = "chunk_text"
    /\ op.stage = "loop"
    /\ ~(op.start < Len(op.text))
    /\ op' = [op EXCEPT !.stage = "returned"]
    /\ ret' = op.chunks
    /\ UNCHANGED <<storeVars, histVars, crawlVars, txVars, jobVars, engineVars>>

NextChunk == ChunkEnter \/ ChunkIterate \/ ChunkReturn

SpecChunk == InitChunk /\ [][NextChunk]_vars

\* C17: chunk_text terminates for every text, every chunk size C > 0 and
\* every overlap O >= 0, because each iteration of its loop leaves the window
\* start strictly greater than it found it, also when the window's trimmed
\* text is empty and when O >= C.
C17_StartAdvances ==
    [][(op.stage = "loop" /\ op'.stage = "loop") => op'.start > op.start]_vars

\* The chunks chunk_text has returned, or has collected so far.
ChunksSoFar == IF op.stage = "returned" THEN ret ELSE op.chunks

\* C18: every chunk chunk_text returns has start < end <= len(text) and
\* end - start <= C, the starts strictly increase, and each chunk after the
\* first starts exactly at the previous chunk's end minus the overlap O.
C18_ExactOverlap ==
    op.stage = "returned"
    => /\ \A i \in 1..Len(ret) :
             /\ ret[i].start_char < ret[i].end_char
             /\ ret[i].end_char <= Len(op.text)
             /\ ret[i].end_char - ret[i].start_char <= op.chunk_size
       /\ \A i \in 2..Len(ret) :
             /\ ret[i].start_char > ret[i - 1].start_char
             /\ ret[i].start_char = ret[i - 1].end_char - op.chunk_overlap

\* C18, amended: every chunk has start <= end <= len(text), start < end
\* unless the text is empty, and end - start <= C; the starts strictly
\* increase; each chunk after the first starts at the previous chunk's end
\* minus O or later; and when O <= C no start is negative and the characters
\* of the text between the end of one chunk and the start of the next are
\* whitespace.
C18_OrderedNoTextLost ==
    LET chunks == ChunksSoFar
    IN /\ \A i \in 1..Len(chunks) :
             /\ chunks[i].start_char <= chunks[i].end_char
             /\ op.text # <<>> => chunks[i].start_char < chunks[i].end_char
             /\ chunks[i].end_char <= Len(op.text)
             /\ chunks[i].end_char - chunks[i].start_char <= op.chunk_size
       /\ \A i \in 2..Len(chunks) :
             /\ chunks[i].start_char > chunks[i - 1].start_char
             /\ chunks[i].start_char >= chunks[i - 1].end_char - op.chunk_overlap
       /\ op.chunk_overlap <= op.chunk_size
          => /\ \A i \in 1..Len(chunks) : chunks[i].start_char >= 0
             /\ \A i \in 2..Len(chunks) :
                   \A q \in (chunks[i - 1].end_char + 1)..chunks[i].start_char :
                      op.text[q] \in Whitespace

\* C18 witness: chunk_text returned chunks with a discarded window between
\* two of them: the later one starts after the end of the earlier one.
C18_Witness ==
    /\ op.stage = "returned"
    /\ \E i \in 2..Len(ret) : ret[i].start_char > ret[i - 1].end_char


\* ------------------------------------------------------------------------
\* SearchService.search and its query log
\* ------------------------------------------------------------------------
\* The api keys a request may carry; None stands for a call without one.
ApiKeys == {None, Some(1)}

\* The row search adds to search_queries.
SearchQuery(api_key_id, num_results, results_count) ==
    [api_key_id |-> api_key_id, num_results |-> num_results,
     results_count |-> results_count]

\* The dictionary search returns.
SearchResponse(query, rows) ==
    [query |-> query, results |-> rows, total_results |-> Len(rows)]

InitSearchLog ==
    /\ \E corpus \in RankCorpora :
          /\ web_pages = corpus.pages
          /\ page_chunks = corpus.chunks
    /\ search_queries = <<>>
    /\ op = [name |-> "idle"]
    /\ ret = <<>>
    /\ seed_url = SeedA
    /\ max_pages = 1
    /\ max_concurrent = 1
    /\ include_subdomains = FALSE
    /\ visited = {}
    /\ to_visit = <<>>
    /\ results = <<>>
    /\ batch = <<>>
    /\ bi = 0
    /\ nlinks = 0
    /\ pc = "idle"
    /\ linked = {}
    /\ index_log = <<>>
    /\ tx = <<>>
    /\ engine = <<>>
    /\ job = [pc |-> "none"]

\* SearchService.search(query, num_results, filters, api_key): embed the
\* query, search the store, and with an api key add the SearchQuery row and
\* commit. The commit is awaited outside any try: when it fails, search raises
\* and the caller gets no response.
ServiceSearch ==
    /\ op.name = "idle"
    /\ \E query_embedding \in Emb, num_results \in 1..MaxK, filters \in FilterSpace,
          api_key \in ApiKeys, commit_ok \in BOOLEAN :
          \E rows \in OrderByScoreLimit(SearchCandidates(filters), query_embedding,
                                        num_results) :
             LET response == SearchResponse(query_embedding,
                                            DedupByPage(rows, query_embedding))
                 call == [name |-> "service_search", api_key |-> api_key,
                          response |-> response]
             IN IF api_key = None
                THEN /\ op' = call @@ [stage |-> "returned"]
                     /\ ret' = response
                     /\ UNCHANGED search_queries
                ELSE IF commit_ok
                THEN /\ op' = call @@ [stage |-> "returned"]
                     /\ ret' = response
                     /\ search_queries' =
                           Append(search_queries,
                                  SearchQuery(Val(api_key), num_results,
                                              response.total_results))
                ELSE /\ op' = call @@ [stage |-> "raised"]
                     /\ UNCHANGED <<ret, search_queries>>
    /\ UNCHANGED <<web_pages, page_chunks, histVars, otherThanService>>

NextSearchLog == ServiceSearch

SpecSearchLog == InitSearchLog /\ [][NextSearchLog]_vars

\* C21: writing the search log is best effort: a search call that has ended
\* has returned the response it computed, also when the write of its
\* search_queries row failed.
C21_LogBestEffort ==
    op.name = "service_search" =>
        /\ op.stage = "returned"
        /\ ret = op.response


\* ------------------------------------------------------------------------
\* CrawlerEngine: start, crawl_url and crawl_urls
\* ------------------------------------------------------------------------
MaxFetch == 3          \* crawl_urls: urls holds 1..MaxFetch URLs

\* How page.goto and the reading of the page may end.
FetchOutcomes == {"ok", "http_error", "timeout", "error"}

\* A crawl_url coroutine as crawl_urls creates it.
FetchTask == [pc |-> "created", sem |-> 0, page |-> FALSE, result |-> "none"]

\* The instance after __init__ (no browser, no semaphore), or after start()
\* has run to its end (async with CrawlerEngine()).
Engine(started, mc, n) ==
    [browser |-> IF started THEN Some(1) ELSE None,
     semaphore |-> IF started THEN Some(1) ELSE None,
     launched |-> IF started THEN 1 ELSE 0,
     value |-> IF started THEN <<mc>> ELSE <<>>,
     task |-> [t \in 1..n |-> FetchTask]]

\* "async with self._semaphore" entered by task t: Semaphore.acquire takes a
\* permit of the semaphore the instance holds now, or waits on that
\* semaphore when it has none left.
Acquire(e, t) ==
    LET sem == Val(e.semaphore)
    IN IF e.value[sem] > 0
       THEN [e EXCEPT !.value[sem] = @ - 1,
                      !.task[t].sem = sem, !.task[t].pc = "new_page"]
       ELSE [e EXCEPT !.task[t].sem = sem, !.task[t].pc = "waiting"]

\* Leaving "async with self._semaphore": Semaphore.release.
Release(e, t) == [e EXCEPT !.value[e.task[t].sem] = @ + 1]

InitFetch ==
    /\ max_concurrent \in 1..MaxConcurrent
    /\ \E started \in BOOLEAN, n \in 1..MaxFetch :
          engine = Engine(started, max_concurrent, n)
    /\ seed_url = SeedA
    /\ max_pages = 1
    /\ include_subdomains = FALSE
    /\ visited = {}
    /\ to_visit = <<>>
    /\ results = <<>>
    /\ batch = <<>>
    /\ bi = 0
    /\ nlinks = 0
    /\ pc = "idle"
    /\ linked = {}
    /\ web_pages = <<>>
    /\ page_chunks = <<>>
    /\ search_queries = <<>>
    /\ op = [name |-> "idle"]
    /\ ret = <<>>
    /\ index_log = <<>>
    /\ tx = <<>>
    /\ job = [pc |-> "none"]

\* crawl_url up to its first await.  Without a browser it calls start(), which
\* finds no browser either and awaits the launch; with one it enters the
\* semaphore and awaits new_page, or waits for a permit.
FetchBegin ==
    /\ \E t \in DOMAIN engine.task :
          /\ engine.task[t].pc = "created"
          /\ engine' = IF engine.browser = None
                       THEN [engine EXCEPT !.task[t].pc = "launching"]
                       ELSE Acquire(engine, t)
    /\ UNCHANGED <<crawlVars, storeVars, callVars, histVars, txVars, jobVars>>

\* The launch awaited by start() ends.  start() stores the browser and a new
\* Semaphore(max_concurrent) in the instance and returns to crawl_url, which
\* enters the semaphore of the instance; a launch that fails raises out of
\* crawl_url.
FetchStarted ==
    /\ \E t \in DOMAIN engine.task, ok \in BOOLEAN :
          /\ engine.task[t].pc = "launching"
          /\ engine' =
                IF ok
                THEN Acquire([engine EXCEPT
                                 !.launched = @ + 1,
                                 !.browser = Some(engine.launched + 1),
                                 !.semaphore = Some(engine.launched + 1),
                                 !.value = Append(@, max_concurrent)], t)
                ELSE [engine EXCEPT !.task[t].pc = "raised"]
    /\ UNCHANGED <<crawlVars, storeVars, callVars, histVars, txVars, jobVars>>

\* A task waiting on a semaphore gets a permit of it.
FetchAcquire ==
    /\ \E t \in DOMAIN engine.task :
          /\ engine.task[t].pc = "waiting"
          /\ engine.value[engine.task[t].sem] > 0
          /\ engine' = [engine EXCEPT !.value[engine.task[t].sem] = @ - 1,
                                      !.task[t].pc = "new_page"]
    /\ UNCHANGED <<crawlVars, storeVars, callVars, histVars, txVars, jobVars>>

\* "page = await self._browser.new_page(...)": the page is open, or new_page
\* raises, which leaves the semaphore and crawl_url.
FetchNewPage ==
    /\ \E t \in DOMAIN engine.task, ok \in BOOLEAN :
          /\ engine.task[t].pc = "new_page"
          /\ engine' =
                IF ok
                THEN [engine EXCEPT !.task[t].page = TRUE, !.task[t].pc = "goto"]
                ELSE Release([engine EXCEPT !.task[t].pc = "raised"], t)
    /\ UNCHANGED <<crawlVars, storeVars, callVars, histVars, txVars, jobVars>>

\* The try block: goto and the reading of the page end in a CrawlResult, with
\* content, or with the error of an HTTP status >= 400, a timeout or another
\* exception; the finally clause awaits page.close().
FetchGoto ==
    /\ \E t \in DOMAIN engine.task, outcome \in FetchOutcomes :
          /\ engine.task[t].pc = "goto"
          /\ engine' = [engine EXCEPT !.task[t].result = outcome,
                                      !.task[t].pc = "closing"]
    /\ UNCHANGED <<crawlVars, storeVars, callVars, histVars, txVars, jobVars>>

\* page.close() ends, the semaphore is left, crawl_url returns its result.
FetchClose ==
    /\ \E t \in DOMAIN engine.task :
          /\ engine.task[t].pc = "closing"
          /\ engine' = Release([engine EXCEPT !.task[t].page = FALSE,
                                              !.task[t].pc = "returned"], t)
    /\ UNCHANGED <<crawlVars, storeVars, callVars, histVars, txVars, jobVars>>

NextFetch ==
    \/ FetchBegin \/ FetchStarted \/ FetchAcquire
    \/ FetchNewPage \/ FetchGoto \/ FetchClose

SpecFetch == InitFetch /\ [][NextFetch]_vars

\* The tasks that have a browser page open.
OpenPages == {t \in DOMAIN engine.task : engine.task[t].page}

C26_LaunchedOnce ==
    /\ engine.launched <= 1
    /\ \A t, u \in DOMAIN engine.task :
          engine.task[t].sem # 0 /\ engine.task[u].sem # 0
              => engine.task[t].sem = engine.task[u].sem


\* ------------------------------------------------------------------------
\* EmbeddingService: embed_text with its retries, and embed_texts
\* ------------------------------------------------------------------------
MaxTexts == 3          \* embed_texts: texts holds 0..MaxTexts texts

EmbedBatchSize == 2    \* batch_size of embed_texts, scaled down

StopAfterAttempt == 3  \* @retry(stop=stop_after_attempt(3))

\* texts[i:i + batch_size]: the positions of the batch that starts at i.
BatchOf(i, n) == [k \in 1..Min(EmbedBatchSize, n - i + 1) |-> i + k - 1]

\* Mutant of Gather: the results come in the order the calls completed.
GatherAsCompleted(tasks, completed, vec) ==
    [k \in 1..Len(completed) |-> Val(vec[completed[k]])]

\* asyncio.gather(*tasks) when every task has returned: the results in the
\* order of the tasks, whatever the order they completed in.
Gather(tasks, completed, vec) ==
    [k \in 1..Len(tasks) |-> Val(vec[tasks[k]])]

\* The embed_text calls of the batch at i are started.
StartBatch(state, i, n) ==
    [t \in 1..n |-> IF i <= t /\ t < i + EmbedBatchSize THEN "running" ELSE state[t]]

InitEmbed ==
    /\ \E n \in 0..MaxTexts :
          op = [name |-> "embed_texts", n |-> n, i |-> 1, stage |-> "running",
                attempts |-> [t \in 1..n |-> 0],
                state |-> StartBatch([t \in 1..n |-> "idle"], 1, n),
                vec |-> [t \in 1..n |-> None],
                completed |-> <<>>,
                all_embeddings |-> <<>>]
    /\ ret = <<>>
    /\ seed_url = SeedA
    /\ max_pages = 1
    /\ max_concurrent = 1
    /\ include_subdomains = FALSE
    /\ visited = {}
    /\ to_visit = <<>>
    /\ results = <<>>
    /\ batch = <<>>
    /\ bi = 0
    /\ nlinks = 0
    /\ pc = "idle"
    /\ linked = {}
    /\ web_pages = <<>>
    /\ page_chunks = <<>>
    /\ search_queries = <<>>
    /\ index_log = <<>>
    /\ tx = <<>>
    /\ engine = <<>>
    /\ job = [pc |-> "none"]

\* One attempt of an embed_text call of the running batch: genai.embed_content
\* returns a vector, which ends the call, or raises; tenacity tries again
\* unless this was attempt number 3, after which the call raises.
EmbedAttempt ==
    /\ op.stage = "running"
    /\ \E t \in 1..op.n, outcome \in {None} \cup {Some(e) : e \in Emb} :
          /\ op.state[t] = "running"
          /\ op' = [op EXCEPT
                       !.attempts[t] = @ + 1,
                       !.vec[t] = outcome,
                       !.completed = IF outcome # None THEN Append(@, t) ELSE @,
                       !.state[t] = IF outcome # None THEN "ok"
                                    ELSE IF op.attempts[t] + 1 >= StopAfterAttempt
                                    THEN "failed" ELSE "running"]
    /\ UNCHANGED <<ret, storeVars, histVars, crawlVars, txVars, jobVars, engineVars>>

\* gather returns the results of the batch, embed_texts extends
\* all_embeddings with them and starts the next batch, or returns
\* all_embeddings after the last one.
EmbedBatchDone ==
    /\ op.stage = "running"
    /\ LET tasks == BatchOf(op.i, op.n)
           next == op.i + EmbedBatchSize
           all == op.all_embeddings \o Gather(tasks, op.completed, op.vec)
       IN /\ \A k \in 1..Len(tasks) : op.state[tasks[k]] = "ok"
          /\ IF next <= op.n
             THEN /\ op' = [op EXCEPT !.i = next, !.all_embeddings = all,
                                      !.completed = <<>>,
                                      !.state = StartBatch(op.state, next, op.n)]
                  /\ UNCHANGED ret
             ELSE /\ op' = [op EXCEPT !.stage = "returned", !.all_embeddings = all]
                  /\ ret' = all
    /\ UNCHANGED <<storeVars, histVars, crawlVars, txVars, jobVars, engineVars>>

\* A call of the batch has raised: gather raises, and so does embed_texts.
EmbedRaise ==
    /\ op.stage = "running"
    /\ \E t \in 1..op.n : op.state[t] = "failed"
    /\ op' = [op EXCEPT !.stage = "raised"]
    /\ UNCHANGED <<ret, storeVars, histVars, crawlVars, txVars, jobVars, engineVars>>

NextEmbed == EmbedAttempt \/ EmbedBatchDone \/ EmbedRaise

SpecEmbed == InitEmbed /\ [][NextEmbed]_vars

====
